---- MODULE Spec2Model ----
(***************************************************************************)
(* Markdown viewer for the HP Prime: the file picker (browser.py), the     *)
(* viewer shell (main.py) and the locale guard (ppl_guard.py).             *)
(*                                                                         *)
(* Python strings are modelled as sequences of character codes, so that    *)
(* str(), find(), slicing, lower(), endswith() and string comparison are   *)
(* computed and not assumed.                                               *)
(***************************************************************************)
EXTENDS Integers, Sequences, FiniteSets, TLC

VARIABLES
    \* ---- harness of the pure functions of browser.py
    args,               \* the arguments of the call
    ret,                \* its return value, once pc = "returned"
    \* ---- ppl_guard.py and the firmware register it guards
    HSeparator,         \* the firmware's HSeparator setting
    saved_separator,    \* ppl_guard._saved_separator: <<>> is None, <<n>> is n
    prev,               \* PPLSafe._prev: <<>> before __enter__, <<n>> after
    scoped_sep,         \* HSeparator of a second device, guarded by PPLSafe
    bookmark_file,      \* the text of the file '.bookmark', None when missing
    \* ---- the touch handling of file_picker and of main's viewer loop
    touch_down,         \* a touch is in progress
    tap_x,              \* where it started
    tap_y,
    touch_start_time,   \* get_ticks() when it started
    long_press_fired,   \* the long-press menu was opened during it
    drag_last_y,        \* main: the y the last scroll step was taken at
    scrollbar_dragging, \* main: the touch started on the scrollbar
    menu_visible,       \* main: the viewer's menu bar is shown
    split_mode,         \* main: split view is on
    viewport,           \* the viewport of the MarkdownViewer instance displayed
    \* ---- main.py / browser.py
    pc,                 \* where the program is
    screen,             \* what the display shows
    items,              \* file_picker: the sorted rows
    selected,           \* file_picker: the selection index
    filename,           \* main: the picker's result, then the file displayed
    scroll,             \* the viewer's scroll position
    nav_stack,          \* main: back history
    fwd_stack,          \* main: forward history
    action,             \* main: 'back' or 'exit'
    last_file,          \* main: the picker's highlight
    last_scroll,        \* main: the scroll position that goes with last_file
    \* ---- the device and the preference store
    all_files,          \* what list_files() returns
    favorites,          \* file_prefs.get_favorites()
    sort_col,           \* file_prefs.get_sort()[0]
    sort_asc,           \* file_prefs.get_sort()[1]
    scroll_pos,         \* file_prefs: the saved scroll position of each file
    progress,           \* file_prefs: the saved progress percentage of each file
    \* ---- observation only
    sepAtInit,          \* HSeparator immediately before ppl_guard.init()
    evalFailed,         \* the evaluator calls that have raised so far
    cleanupCalls,       \* number of ppl_guard.cleanup() calls so far
    bookmark_saved,     \* the last save_last_file() of main wrote the file
    lastNav,            \* the last two navigations, and where the last started
    event,              \* what the last pass of a touch loop did
    fired_touch         \* the finger has stayed down since a long-press menu opened

scopeVars == <<prev, scoped_sep>>
fileVars == <<bookmark_file>>
exitVars == <<progress, bookmark_saved>>
splitVars == <<split_mode, viewport>>
touchVars == <<touch_down, tap_x, tap_y, touch_start_time, long_press_fired,
               drag_last_y, scrollbar_dragging, menu_visible, event, fired_touch>>
harnessVars == <<args, ret, scopeVars, fileVars, exitVars, splitVars, touchVars>>
guardVars == <<HSeparator, saved_separator, sepAtInit, evalFailed, cleanupCalls>>
pickerVars == <<items, selected>>
viewerVars == <<scroll, nav_stack, fwd_stack, action>>
appVars == <<pc, screen, filename, last_file, last_scroll, lastNav>>
deviceVars == <<all_files, favorites, sort_col, sort_asc, scroll_pos>>
vars == <<harnessVars, guardVars, pickerVars, viewerVars, appVars, deviceVars>>

\* ------------------------------------------------------------------ bounds
MaxSize == 11000        \* _format_size is applied to 0..MaxSize
MaxNameLen == 4         \* _file_label is applied to names of up to MaxNameLen
MaxListing == 3         \* files in a directory listing
MaxFileSize == 1        \* file sizes of a listing are in 0..MaxFileSize
MaxSeparator == 3       \* HSeparator starts in 0..MaxSeparator
MaxCleanups == 3        \* cleanup() calls of a run of the guard alone
MaxScroll == 1          \* scroll positions are in 0..MaxScroll
MaxNav == 2             \* links are followed while the back stack is shorter
MaxFileLen == 4         \* characters of a bookmark file found at start
MaxSavedScroll == 10    \* save_last_file gets -MaxSavedScroll..MaxSavedScroll
MaxRows == 9            \* files of the long listing shown in the picker

\* ----------------------------------------------------------------- strings
None == <<-1>>                          \* Python's None
MD_EXT == <<46, 109, 100>>              \* '.md'
KB_SUFFIX == <<32, 75, 66>>             \* ' KB'
UNDERSCORE == <<95>>                    \* '_'
SLASH == <<47>>                         \* '/'

RECURSIVE Str(_)
\* str(n) of a non-negative int: its decimal digits
Str(n) == IF n < 10 THEN <<48 + n>> ELSE Str(n \div 10) \o <<48 + (n % 10)>>

RECURSIVE ParseInt(_)
\* the integer a string of decimal digits denotes (int(s), and the
\* evaluator's reading of an integer literal)
ParseInt(s) ==
    IF Len(s) = 0 THEN 0
    ELSE 10 * ParseInt(SubSeq(s, 1, Len(s) - 1)) + (s[Len(s)] - 48)

IsDigits(s) == Len(s) > 0 /\ \A i \in 1..Len(s) : s[i] \in 48..57

\* s.find(c) for a one-character c: lowest 0-based index, -1 when absent
Find(s, c) ==
    IF \E i \in 1..Len(s) : s[i] = c[1]
    THEN (CHOOSE i \in 1..Len(s) : s[i] = c[1] /\ \A j \in 1..(i - 1) : s[j] # c[1]) - 1
    ELSE -1

\* s.endswith(e)
EndsWith(s, e) ==
    Len(s) >= Len(e) /\ SubSeq(s, Len(s) - Len(e) + 1, Len(s)) = e

\* s.lower() on ASCII
Lower(s) == [i \in 1..Len(s) |-> IF s[i] \in 65..90 THEN s[i] + 32 ELSE s[i]]

\* s < t on Python strings: lexicographic by character code
StrLess(s, t) ==
    \E k \in 1..(Len(t)) :
        /\ k <= Len(s) + 1
        /\ \A i \in 1..(k - 1) : s[i] = t[i]
        /\ (k = Len(s) + 1 \/ s[k] < t[k])

\* ------------------------------------------------------- browser.py, pure
FormatSizeTruncating(size) ==
    LET kb100 == (size * 100) \div 1024
        whole == kb100 \div 100
        frac == kb100 % 100
    IN  IF frac < 10
        THEN Str(whole) \o <<46, 48>> \o Str(frac) \o KB_SUFFIX
        ELSE Str(whole) \o <<46>> \o Str(frac) \o KB_SUFFIX

\* _format_size(size)
FormatSize(size) ==
    LET kb100 == (size * 100 + 512) \div 1024
        whole == kb100 \div 100
        frac == kb100 % 100
    IN  IF frac < 10
        THEN Str(whole) \o <<46, 48>> \o Str(frac) \o KB_SUFFIX
        ELSE Str(whole) \o <<46>> \o Str(frac) \o KB_SUFFIX

FileLabelEveryUnderscore(fname) ==
    [i \in 1..Len(fname) |->
        IF fname[i] = UNDERSCORE[1] /\ i > 1 /\ i < Len(fname)
        THEN SLASH[1] ELSE fname[i]]

\* _file_label(fname)
FileLabel(fname) ==
    LET idx == Find(fname, UNDERSCORE)
    IN  IF idx > 0 /\ idx < Len(fname) - 1
        THEN SubSeq(fname, 1, idx) \o SLASH \o SubSeq(fname, idx + 2, Len(fname))
        ELSE fname

RECURSIVE GetFilesFrom(_, _)
\* get_files(ext) over the listing list_files() returns
GetFilesFrom(listing, ext) ==
    IF Len(listing) = 0 THEN <<>>
    ELSE LET s == Head(listing)
             rest == GetFilesFrom(Tail(listing), ext)
         IN  IF ext = None \/ EndsWith(s, ext) THEN <<s>> \o rest ELSE rest

\* sizes.get(f, 0)
SizeOf(sizes, f) == IF f \in DOMAIN sizes THEN sizes[f] ELSE 0

\* the (filename, size, is_fav) tuples _build_file_list appends, in listing order
RawItems(raw_files, favs, sizes) ==
    [i \in 1..Len(raw_files) |->
        <<raw_files[i], SizeOf(sizes, raw_files[i]), raw_files[i] \in favs>>]

SortsBeforeIgnoringDirection(col, asc, x, y) ==
    IF col = "fav"
    THEN \/ x[3] = TRUE /\ y[3] = FALSE
         \/ x[3] = y[3] /\ StrLess(Lower(x[1]), Lower(y[1]))
    ELSE IF col = "size"
    THEN x[2] < y[2]
    ELSE StrLess(Lower(x[1]), Lower(y[1]))

\* x must come before y in items.sort(key=..., reverse=...): the key of x is
\* strictly smaller (strictly greater under reverse) than the key of y
SortsBefore(col, asc, x, y) ==
    IF col = "fav"
    THEN LET kx == IF asc THEN ~x[3] ELSE x[3]
             ky == IF asc THEN ~y[3] ELSE y[3]
         IN  \/ kx = FALSE /\ ky = TRUE
             \/ kx = ky /\ StrLess(Lower(x[1]), Lower(y[1]))
    ELSE IF col = "size"
    THEN IF asc THEN x[2] < y[2] ELSE x[2] > y[2]
    ELSE IF asc THEN StrLess(Lower(x[1]), Lower(y[1]))
                ELSE StrLess(Lower(y[1]), Lower(x[1]))

\* The lists items.sort() can leave: every arrangement of the items in which
\* no item is after one it must come before.  MicroPython's list.sort is a
\* quicksort and not stable, so items with equal keys may end in any order
\* (CPython's stable sort yields the one of these that keeps listing order).
SortOutcomes(its, col, asc) ==
    LET n == Len(its)
    IN  { p \in { [i \in 1..n |-> its[pi[i]]] : pi \in Permutations(1..n) } :
            \A i \in 1..n : \A j \in (i + 1)..n : ~SortsBefore(col, asc, p[j], p[i]) }

\* _build_file_list(ext, sizes), with what list_files(), get_favorites() and
\* get_sort() return made explicit: the set of lists it can return
BuildFileList(listing, favs, col, asc, ext, sizes) ==
    SortOutcomes(RawItems(GetFilesFrom(listing, ext), favs, sizes), col, asc)

\* ------------------------------------------------- the files on the device
FILE_A == <<97, 46, 109, 100>>          \* 'a.md'
FILE_B_UPPER == <<66, 46, 109, 100>>    \* 'B.md'
FILE_B == <<98, 46, 109, 100>>          \* 'b.md'
FILE_PY == <<99, 46, 112, 121>>         \* 'c.py'
FileNames == {FILE_A, FILE_B_UPPER, FILE_B, FILE_PY}

\* what list_files() can return: the files of the device, each once, in any order
Listings ==
    UNION { { l \in [1..n -> FileNames] : \A i, j \in 1..n : l[i] = l[j] => i = j } :
            n \in 0..MaxListing }

Range(f) == { f[i] : i \in DOMAIN f }

\* the viewport of a new MarkdownViewer(GR_AFF, height=VIEWER_HEIGHT_FULL), as
\* toggle_split restores it, and the one split view applies: <<top, height>>,
\* the height as its difference from VIEWER_HEIGHT_FULL
FULL_VIEWPORT == <<5, 0>>
SPLIT_VIEWPORT == <<85, -80>>

\* no touch is in progress: the values the two loops start with
TouchIdle ==
    /\ touch_down = FALSE /\ tap_x = -1 /\ tap_y = -1
    /\ touch_start_time = 0 /\ long_press_fired = FALSE
    /\ drag_last_y = -1 /\ scrollbar_dragging = FALSE /\ menu_visible = FALSE
    /\ event = <<>> /\ fired_touch = FALSE

\* no PPLSafe scope has been entered and there is no bookmark file
ScopeIdle ==
    /\ prev = <<>> /\ scoped_sep = 0 /\ bookmark_file = <<-1>>
    /\ bookmark_saved = FALSE
    /\ split_mode = FALSE /\ viewport = FULL_VIEWPORT
    /\ TouchIdle

\* ------------------------------------------- the program at rest (harness)
AppIdle ==
    /\ HSeparator = 0 /\ saved_separator = <<>> /\ sepAtInit = 0
    /\ evalFailed = {} /\ cleanupCalls = 0
    /\ items = <<>> /\ selected = 0
    /\ scroll = 0 /\ nav_stack = <<>> /\ fwd_stack = <<>> /\ action = "back"
    /\ screen = "none" /\ filename = None /\ last_file = None /\ last_scroll = 0
    /\ all_files = <<>> /\ favorites = {} /\ sort_col = "name" /\ sort_asc = TRUE
    /\ scroll_pos = <<>> /\ progress = <<>>
    /\ lastNav = <<>>
    /\ ScopeIdle

AppUnchanged ==
    UNCHANGED <<guardVars, pickerVars, viewerVars, deviceVars, scopeVars, fileVars, exitVars, splitVars,
                touchVars,
                screen, filename, last_file, last_scroll, lastNav>>

\* ---------------------------------------------- _format_size under test
InitSize ==
    /\ args \in [size : 0..MaxSize]
    /\ ret = <<>>
    /\ pc = "call"
    /\ AppIdle

CallFormatSize ==
    /\ pc = "call"
    /\ pc' = "returned"
    /\ ret' = FormatSize(args.size)
    /\ UNCHANGED args
    /\ AppUnchanged

SpecSize == InitSize /\ [][CallFormatSize]_vars

\* ----------------------------------------------- _file_label under test
LabelChars == {97, 95, 46}              \* 'a', '_', '.'

InitLabel ==
    /\ args \in [fname : UNION { [1..n -> LabelChars] : n \in 0..MaxNameLen }]
    /\ ret = <<>>
    /\ pc = "call"
    /\ AppIdle

CallFileLabel ==
    /\ pc = "call"
    /\ pc' = "returned"
    /\ ret' = FileLabel(args.fname)
    /\ UNCHANGED args
    /\ AppUnchanged

SpecLabel == InitLabel /\ [][CallFileLabel]_vars

\* ------------------------------------------- _build_file_list under test
InitList ==
    /\ \E listing \in Listings :
         args \in [ all_files : {listing},
                    favs : SUBSET Range(listing),
                    sizes : UNION { [d -> 1..MaxFileSize] : d \in SUBSET Range(listing) },
                    col : {"name", "size", "fav"},
                    asc : BOOLEAN,
                    ext : {None, MD_EXT} ]
    /\ ret = <<>>
    /\ pc = "call"
    /\ AppIdle

CallBuildFileList ==
    /\ pc = "call"
    /\ pc' = "returned"
    /\ ret' \in BuildFileList(args.all_files, args.favs, args.col, args.asc,
                              args.ext, args.sizes)
    /\ UNCHANGED args
    /\ AppUnchanged

SpecList == InitList /\ [][CallBuildFileList]_vars

\* =================================================== claims: browser.py, pure

\* the 1-based position of the first '.' of s (0 when there is none)
DotAt(s) == Find(s, <<46>>) + 1

\* C7: for every size >= 0, _format_size(size) is '<whole>.<ff> KB' with
\* 100*whole + ff = floor((size*100 + 512) / 1024), ff printed as exactly two
\* digits; 1000 bytes gives '0.98 KB'.
C7_FormatSizeRoundsHalfUp ==
    pc = "returned" =>
        LET n == Len(ret)
            whole == SubSeq(ret, 1, DotAt(ret) - 1)
            ff == SubSeq(ret, DotAt(ret) + 1, n - 3)
        IN  /\ DotAt(ret) >= 2
            /\ IsDigits(whole)
            /\ Len(ff) = 2 /\ IsDigits(ff)
            /\ SubSeq(ret, n - 2, n) = KB_SUFFIX
            /\ 100 * ParseInt(whole) + ParseInt(ff) = (args.size * 100 + 512) \div 1024
            /\ (args.size = 1000 => ret = <<48, 46, 57, 56, 32, 75, 66>>)

\* 1000 bytes has been formatted as '0.98 KB'
C7_Witness ==
    pc = "returned" /\ args.size = 1000 /\ ret = <<48, 46, 57, 56, 32, 75, 66>>

\* the 1-based positions of the underscores of a name
UnderscoresOf(fname) == { i \in 1..Len(fname) : fname[i] = 95 }

FirstOf(S) == CHOOSE i \in S : \A j \in S : i <= j

\* C8: _file_label(fname) replaces only the first underscore by '/', and only
\* when something precedes it and something follows it; otherwise fname is
\* returned unchanged; later underscores are never replaced.
C8_FileLabelFirstUnderscoreOnly ==
    pc = "returned" =>
        LET f == args.fname
            us == UnderscoresOf(f)
        IN  IF us # {} /\ FirstOf(us) > 1 /\ FirstOf(us) < Len(f)
            THEN /\ Len(ret) = Len(f)
                 /\ ret[FirstOf(us)] = 47
                 /\ \A i \in 1..Len(f) : i # FirstOf(us) => ret[i] = f[i]
            ELSE ret = f

\* 'a_a_' has been labelled 'a/a_': the first underscore replaced, the later kept
C8_Witness ==
    pc = "returned" /\ args.fname = <<97, 95, 97, 95>> /\ ret = <<97, 47, 97, 95>>

\* two rows tie on the primary sort key of column col
PrimaryTie(col, x, y) ==
    IF col = "fav" THEN x[3] = y[3]
    ELSE IF col = "size" THEN x[2] = y[2]
    ELSE Lower(x[1]) = Lower(y[1])

\* C3: in the list _build_file_list returns, for every sort column and both
\* directions, two files that tie on the primary sort key appear in the
\* order of their lower-cased names.
C3_TiesBreakByName ==
    pc = "returned" =>
        \A i \in 1..Len(ret) : \A j \in (i + 1)..Len(ret) :
            PrimaryTie(args.col, ret[i], ret[j])
                => ~StrLess(Lower(ret[j][1]), Lower(ret[i][1]))

\* the files _build_file_list keeps: those of the listing with the extension
KeptFiles == { f \in Range(args.all_files) : args.ext = None \/ EndsWith(f, args.ext) }

\* row x may stand before row y under the persisted column and direction
InOrder(col, asc, x, y) ==
    IF col = "fav" THEN (IF asc THEN y[3] => x[3] ELSE x[3] => y[3])
    ELSE IF col = "size" THEN (IF asc THEN x[2] <= y[2] ELSE x[2] >= y[2])
    ELSE IF asc THEN ~StrLess(Lower(y[1]), Lower(x[1]))
                ELSE ~StrLess(Lower(x[1]), Lower(y[1]))

\* C9: _build_file_list returns a permutation of the extension-filtered
\* listing (each file once, with its size from the sizes map or 0 and its
\* favorite flag), ordered by the persisted column in the persisted
\* direction: name by lower-cased name, size by byte size, fav ascending
\* favorites first, fav descending non-favorites first.
C9_BuildFileListSortedPermutation ==
    pc = "returned" =>
        /\ Len(ret) = Cardinality(KeptFiles)
        /\ { ret[i][1] : i \in 1..Len(ret) } = KeptFiles
        /\ \A i \in 1..Len(ret) :
             /\ ret[i][2] = (IF ret[i][1] \in DOMAIN args.sizes
                             THEN args.sizes[ret[i][1]] ELSE 0)
             /\ ret[i][3] = (ret[i][1] \in args.favs)
        /\ \A i \in 1..Len(ret) : \A j \in (i + 1)..Len(ret) :
             InOrder(args.col, args.asc, ret[i], ret[j])

\* a listing of three files, one filtered out by the extension, has been
\* returned in descending size order with rows of different sizes
C9_Witness ==
    /\ pc = "returned"
    /\ Len(args.all_files) = 3 /\ Len(ret) = 2
    /\ args.col = "size" /\ ~args.asc
    /\ ret[1][2] > ret[2][2]

\* ======================================================= ppl_guard.py
\* 'HSeparator:=%d' % v: the command text handed to the evaluator
AssignCommand(v) == [target |-> "HSeparator", value |-> Str(v)]

\* the value the evaluator stores on 'HSeparator:=<digits>'
HEvalAssign(cmd) == ParseInt(cmd.value)

GuardInitSavingAfterForcing(readOk, forceOk) ==
    /\ HSeparator' = IF forceOk THEN HEvalAssign([target |-> "HSeparator", value |-> <<48>>])
                     ELSE HSeparator
    /\ saved_separator' = IF readOk THEN <<HSeparator'>> ELSE <<0>>
    /\ evalFailed' = evalFailed \cup (IF readOk THEN {} ELSE {"read"})
                                \cup (IF forceOk THEN {} ELSE {"force"})
    /\ sepAtInit' = HSeparator
    /\ UNCHANGED cleanupCalls

GuardInitLeavingNoneOnFailure(readOk, forceOk) ==
    /\ saved_separator' = IF readOk THEN <<HSeparator>> ELSE <<>>
    /\ HSeparator' = IF forceOk THEN HEvalAssign([target |-> "HSeparator", value |-> <<48>>])
                     ELSE HSeparator
    /\ evalFailed' = evalFailed \cup (IF readOk THEN {} ELSE {"read"})
                                \cup (IF forceOk THEN {} ELSE {"force"})
    /\ sepAtInit' = HSeparator
    /\ UNCHANGED cleanupCalls

GuardInitWithoutForcing(readOk, forceOk) ==
    /\ saved_separator' = IF readOk THEN <<HSeparator>> ELSE <<0>>
    /\ HSeparator' = HSeparator
    /\ evalFailed' = evalFailed \cup (IF readOk THEN {} ELSE {"read"})
                                \cup (IF forceOk THEN {} ELSE {"force"})
    /\ sepAtInit' = HSeparator
    /\ UNCHANGED cleanupCalls

\* init(): readOk / forceOk say whether heval('HSeparator') and
\* heval('HSeparator:=0') return or raise
GuardInit(readOk, forceOk) ==
    /\ saved_separator' = IF readOk THEN <<HSeparator>> ELSE <<0>>
    /\ HSeparator' = IF forceOk THEN HEvalAssign([target |-> "HSeparator", value |-> <<48>>])
                     ELSE HSeparator
    /\ evalFailed' = evalFailed \cup (IF readOk THEN {} ELSE {"read"})
                                \cup (IF forceOk THEN {} ELSE {"force"})
    /\ sepAtInit' = HSeparator
    /\ UNCHANGED cleanupCalls

GuardCleanupSwapping(restoreOk) ==
    /\ HSeparator' = IF saved_separator # <<>> /\ restoreOk
                     THEN HEvalAssign(AssignCommand(saved_separator[1]))
                     ELSE HSeparator
    /\ evalFailed' = IF saved_separator # <<>> /\ ~restoreOk
                     THEN evalFailed \cup {"restore"} ELSE evalFailed
    /\ cleanupCalls' = cleanupCalls + 1
    /\ saved_separator' = IF saved_separator # <<>> THEN <<HSeparator>> ELSE <<>>
    /\ UNCHANGED sepAtInit

\* cleanup(): restoreOk says whether heval('HSeparator:=%d' % saved) returns
GuardCleanup(restoreOk) ==
    /\ HSeparator' = IF saved_separator # <<>> /\ restoreOk
                     THEN HEvalAssign(AssignCommand(saved_separator[1]))
                     ELSE HSeparator
    /\ evalFailed' = IF saved_separator # <<>> /\ ~restoreOk
                     THEN evalFailed \cup {"restore"} ELSE evalFailed
    /\ cleanupCalls' = cleanupCalls + 1
    /\ UNCHANGED <<saved_separator, sepAtInit>>

\* ------------------------------------------- the guard alone, under test
InitGuard ==
    /\ args = <<>> /\ ret = <<>>
    /\ HSeparator \in 0..MaxSeparator
    /\ saved_separator = <<>>
    /\ sepAtInit = HSeparator
    /\ evalFailed = {}
    /\ cleanupCalls = 0
    /\ pc = "unguarded"
    /\ items = <<>> /\ selected = 0
    /\ scroll = 0 /\ nav_stack = <<>> /\ fwd_stack = <<>> /\ action = "back"
    /\ screen = "none" /\ filename = None /\ last_file = None /\ last_scroll = 0
    /\ all_files = <<>> /\ favorites = {} /\ sort_col = "name" /\ sort_asc = TRUE
    /\ scroll_pos = <<>> /\ progress = <<>>
    /\ lastNav = <<>>
    /\ ScopeIdle

GuardRest ==
    UNCHANGED <<harnessVars, pickerVars, viewerVars, deviceVars,
                screen, filename, last_file, last_scroll, lastNav>>

\* ppl_guard.init(), called once
CallInit ==
    /\ pc = "unguarded"
    /\ \E readOk \in BOOLEAN, forceOk \in BOOLEAN : GuardInit(readOk, forceOk)
    /\ pc' = "guarded"
    /\ GuardRest

\* ppl_guard.cleanup(), called at any time, any number of times
CallCleanup ==
    /\ pc \in {"unguarded", "guarded", "restored"}
    /\ cleanupCalls < MaxCleanups
    /\ \E restoreOk \in BOOLEAN : GuardCleanup(restoreOk)
    /\ pc' = IF pc = "unguarded" THEN "unguarded" ELSE "restored"
    /\ GuardRest

SpecGuard == InitGuard /\ [][CallInit \/ CallCleanup]_vars

\* the guard alone, init() and cleanup() called in any order: args.separator
\* is the setting of the device before the first call
InitGuardCalls ==
    /\ args \in [separator : 0..MaxSeparator] /\ ret = <<>>
    /\ HSeparator = args.separator
    /\ saved_separator = <<>>
    /\ sepAtInit = HSeparator
    /\ evalFailed = {}
    /\ cleanupCalls = 0
    /\ pc = "unguarded"
    /\ items = <<>> /\ selected = 0
    /\ scroll = 0 /\ nav_stack = <<>> /\ fwd_stack = <<>> /\ action = "back"
    /\ screen = "none" /\ filename = None /\ last_file = None /\ last_scroll = 0
    /\ all_files = <<>> /\ favorites = {} /\ sort_col = "name" /\ sort_asc = TRUE
    /\ scroll_pos = <<>> /\ progress = <<>>
    /\ lastNav = <<>>
    /\ ScopeIdle

\* ppl_guard.init(), called at any time, any number of times
CallInitAnyTime ==
    /\ pc \in {"unguarded", "guarded", "restored"}
    /\ \E readOk \in BOOLEAN, forceOk \in BOOLEAN : GuardInit(readOk, forceOk)
    /\ pc' = "guarded"
    /\ GuardRest

SpecGuardCalls == InitGuardCalls /\ [][CallInitAnyTime \/ CallCleanup]_vars

\* C2: after init() followed later by cleanup(), HSeparator is the value it
\* held immediately before init(), whatever that value was and although 0
\* was forced in between (the evaluator's reads and writes succeeding).
C2_CleanupRestoresValueBeforeInit ==
    (pc = "restored" /\ evalFailed = {}) => HSeparator = sepAtInit

\* a setting other than 0 has been saved, forced to 0 and restored
C2_Witness ==
    /\ pc = "restored" /\ evalFailed = {}
    /\ sepAtInit = MaxSeparator /\ saved_separator = <<MaxSeparator>>
    /\ HSeparator = MaxSeparator

\* ===================================== main.py: the bookmark file
NEWLINE == <<10>>                       \* '\n'
MINUS == <<45>>                         \* '-'

\* str(n) of any int
StrInt(n) == IF n < 0 THEN MINUS \o Str(0 - n) ELSE Str(n)

\* the characters str.strip() and int() take for whitespace
IsSpace(c) == c \in {9, 10, 11, 12, 13, 32}

\* s.strip()
Strip(s) ==
    LET solid == { i \in 1..Len(s) : ~IsSpace(s[i]) }
    IN  IF solid = {} THEN <<>>
        ELSE SubSeq(s, CHOOSE i \in solid : \A j \in solid : i <= j,
                       CHOOSE i \in solid : \A j \in solid : i >= j)

RECURSIVE Split(_, _)
\* s.split(sep) for a one-character sep: always at least one piece
Split(s, sep) ==
    IF Find(s, sep) < 0 THEN <<s>>
    ELSE <<SubSeq(s, 1, Find(s, sep))>> \o Split(SubSeq(s, Find(s, sep) + 2, Len(s)), sep)

\* int(s): <<n>>, or <<>> where int raises ValueError; whitespace around
\* the number and one sign before the digits are accepted
IntOf(s) ==
    LET t == Strip(s)
        signed == Len(t) > 0 /\ t[1] \in {43, 45}
        digits == IF signed THEN SubSeq(t, 2, Len(t)) ELSE t
    IN  IF ~IsDigits(digits) THEN <<>>
        ELSE IF signed /\ t[1] = 45 THEN <<0 - ParseInt(digits)>>
        ELSE <<ParseInt(digits)>>

\* what save_last_file(filename, scroll_pos) writes
BookmarkText(fname, pos) == fname \o NEWLINE \o StrInt(pos)

\* ============================================== main.py and file_picker
\* the listings the device is started with
DeviceListings == { <<>>, <<FILE_PY>>, <<FILE_B, FILE_PY, FILE_A>> }

\* the targets of the links of the documents
LinkTargets == {FILE_A, FILE_B, FILE_PY}

\* the documents that can be displayed
Documents == { f \in FileNames \cup LinkTargets : EndsWith(f, MD_EXT) }

\* get_file_size(f)
FileSizeOnDevice(f) == IF f = FILE_A THEN 1 ELSE 0

\* what load_last_file() can return at start
BookmarkOutcomes == { <<None, 0>>, <<FILE_A, MaxScroll>> }

\* file_prefs.get_scroll_pos(f): 0 for a file never saved
ScrollPosOf(f) == scroll_pos[f]

\* file_prefs.set_scroll_pos(f, p)
SetScrollPos(f, p) == [scroll_pos EXCEPT ![f] = p]

\* what is displayed and the two histories
NavState == <<filename, scroll, nav_stack, fwd_stack>>

\* lastNav after a step that is no navigation
NoNav == [prev |-> "none", op |-> "none", pre |-> <<>>]

\* lastNav after the navigation op
NavDone(op) == [prev |-> lastNav.op, op |-> op, pre |-> NavState]

\* file_picker has returned: its locals are gone
PickerFrameGone == items' = <<>> /\ selected' = 0

\* main() has returned or raised: the viewer, its position and the two
\* history stacks are gone
ViewerGone == scroll' = 0 /\ nav_stack' = <<>> /\ fwd_stack' = <<>>

\* file_picker(...) up to its first poll: sizes, the sorted list, the
\* selection placed on the highlight, the first draw_screen()
PickerOpen(highlight) ==
    LET raw == GetFilesFrom(all_files, MD_EXT)
        sizes == [f \in Range(raw) |-> FileSizeOnDevice(f)]
    IN  /\ items' \in BuildFileList(all_files, favorites, sort_col, sort_asc, MD_EXT, sizes)
        /\ selected' =
             IF highlight # None /\ highlight # <<>>
                /\ \E i \in 1..Len(items') : items'[i][1] = highlight
             THEN (CHOOSE i \in 1..Len(items') :
                     /\ items'[i][1] = highlight
                     /\ \A j \in 1..(i - 1) : items'[j][1] # highlight) - 1
             ELSE 0
        /\ screen' = "picker"
        /\ pc' = "picker"

\* main(): ppl_guard.init(), theme.init(), load_last_file(), then the picker
MainStart ==
    /\ pc = "start"
    /\ GuardInit(TRUE, TRUE)
    /\ \E b \in BookmarkOutcomes : last_file' = b[1] /\ last_scroll' = b[2]
    /\ PickerOpen(last_file')
    /\ lastNav' = NoNav
    /\ UNCHANGED <<harnessVars, viewerVars, deviceVars, filename>>

MainReturnWithoutClearScreen(restoreOk) ==
    /\ GuardCleanup(restoreOk)
    /\ pc' = "returned"
    /\ UNCHANGED screen

\* main(): clear_screen(); ppl_guard.cleanup(); return
MainReturn(restoreOk) ==
    /\ screen' = "cleared"
    /\ GuardCleanup(restoreOk)
    /\ pc' = "returned"

\* main(): the document chosen in the picker is loaded and rendered
OpenViewer(f) ==
    /\ filename' = f
    /\ nav_stack' = <<>>
    /\ fwd_stack' = <<>>
    /\ scroll' = IF ScrollPosOf(f) > 0 THEN ScrollPosOf(f)
                 ELSE IF f = last_file /\ last_scroll > 0 THEN last_scroll
                 ELSE 0
    /\ action' = "back"
    /\ screen' = "viewer"
    /\ pc' = "viewer"
    /\ PickerFrameGone

\* viewer.get_progress_percent(): how far down the page the position is
ProgressPercent(pos) == IF MaxScroll = 0 THEN 0 ELSE (pos * 100) \div MaxScroll

\* save_last_file(fname, pos) as main calls it: the write succeeds, or
\* write() raises after open() has emptied the file; nothing is raised to
\* main. (open() raising, which leaves the file as it was, is followed in
\* SpecBookmark.)
SaveLastFile(fname, pos) ==
    \E outcome \in {"written", "write raised"} :
       /\ bookmark_file' =
            CASE outcome = "written" -> BookmarkText(fname, pos)
              [] outcome = "write raised" -> <<>>
       /\ bookmark_saved' = (outcome = "written")

LeaveViewerRememberingPickedFile ==
    LET picked == IF nav_stack # <<>> THEN nav_stack[1][1] ELSE filename
    IN  /\ last_file' = picked
        /\ last_scroll' = scroll
        /\ SaveLastFile(picked, scroll)
        /\ scroll_pos' = SetScrollPos(picked, scroll)
        /\ progress' = [progress EXCEPT ![picked] = ProgressPercent(scroll)]

\* main(): after the viewer loop, the position is remembered
LeaveViewer ==
    /\ last_file' = filename
    /\ last_scroll' = scroll
    /\ SaveLastFile(filename, scroll)
    /\ scroll_pos' = SetScrollPos(filename, scroll)
    /\ progress' = [progress EXCEPT ![filename] = ProgressPercent(scroll)]

\* ------------------------------------------------- file_picker: the keys
PickerKeyUp ==
    /\ pc = "picker"
    /\ selected' = IF selected > 0 THEN selected - 1 ELSE selected
    /\ UNCHANGED <<harnessVars, guardVars, viewerVars, deviceVars, items, appVars>>

PickerKeyDownPastEnd ==
    /\ pc = "picker"
    /\ selected' = selected + 1
    /\ UNCHANGED <<harnessVars, guardVars, viewerVars, deviceVars, items, appVars>>

PickerKeyDown ==
    /\ pc = "picker"
    /\ selected' = IF items # <<>> /\ selected < Len(items) - 1
                   THEN selected + 1 ELSE selected
    /\ UNCHANGED <<harnessVars, guardVars, viewerVars, deviceVars, items, appVars>>

PickerKeyEnterFirstRow ==
    /\ pc = "picker"
    /\ IF items # <<>>
       THEN OpenViewer(items[1][1])
       ELSE UNCHANGED <<pickerVars, viewerVars, pc, screen, filename>>
    /\ UNCHANGED <<harnessVars, guardVars, deviceVars, last_file, last_scroll, lastNav>>

\* Enter: file_picker returns items[selected][0] and main opens it; on an
\* empty list the key does nothing
PickerKeyEnter ==
    /\ pc = "picker"
    /\ IF items # <<>>
       THEN OpenViewer(items[selected + 1][1])
       ELSE UNCHANGED <<pickerVars, viewerVars, pc, screen, filename>>
    /\ UNCHANGED <<harnessVars, guardVars, deviceVars, last_file, last_scroll, lastNav>>

\* Escape: file_picker returns None and main returns
PickerKeyEsc ==
    /\ pc = "picker"
    /\ filename' = None
    /\ \E restoreOk \in BOOLEAN : MainReturn(restoreOk)
    /\ PickerFrameGone
    /\ UNCHANGED <<harnessVars, viewerVars, deviceVars, last_file, last_scroll, lastNav>>

\* KeyboardInterrupt in the picker's loop: file_picker returns None and
\* main returns
PickerInterrupt ==
    /\ pc = "picker"
    /\ filename' = None
    /\ \E restoreOk \in BOOLEAN : MainReturn(restoreOk)
    /\ PickerFrameGone
    /\ UNCHANGED <<harnessVars, viewerVars, deviceVars, last_file, last_scroll, lastNav>>

\* Enter, then KeyboardInterrupt while main loads the document: it leaves
\* main() and is handled at module level (clear_screen(), then cleanup())
InterruptWhileLoading ==
    /\ pc = "picker"
    /\ items # <<>>
    /\ filename' = items[selected + 1][1]
    /\ screen' = "cleared"
    /\ \E restoreOk \in BOOLEAN : GuardCleanup(restoreOk)
    /\ pc' = "done"
    /\ PickerFrameGone
    /\ UNCHANGED <<harnessVars, viewerVars, deviceVars, last_file, last_scroll, lastNav>>

\* the module's finally clause, after main() has returned
ModuleFinally ==
    /\ pc = "returned"
    /\ \E restoreOk \in BOOLEAN : GuardCleanup(restoreOk)
    /\ pc' = "done"
    /\ UNCHANGED <<harnessVars, pickerVars, viewerVars, deviceVars,
                   screen, filename, last_file, last_scroll, lastNav>>

\* --------------------------------------------------- main: navigation
NavigateLinkKeepingForward(url) ==
    /\ nav_stack' = Append(nav_stack, <<filename, scroll>>)
    /\ fwd_stack' = fwd_stack
    /\ filename' = url
    /\ scroll' = IF ScrollPosOf(url) > 0 THEN ScrollPosOf(url) ELSE 0

\* navigate_link(url) for a url that ends in '.md'
NavigateLink(url) ==
    /\ nav_stack' = Append(nav_stack, <<filename, scroll>>)
    /\ fwd_stack' = <<>>
    /\ filename' = url
    /\ scroll' = IF ScrollPosOf(url) > 0 THEN ScrollPosOf(url) ELSE 0

NavigateBackForgettingScroll ==
    /\ fwd_stack' = Append(fwd_stack, <<filename, 0>>)
    /\ nav_stack' = SubSeq(nav_stack, 1, Len(nav_stack) - 1)
    /\ filename' = nav_stack[Len(nav_stack)][1]
    /\ scroll' = nav_stack[Len(nav_stack)][2]

\* navigate_back() on a non-empty back stack
NavigateBack ==
    /\ fwd_stack' = Append(fwd_stack, <<filename, scroll>>)
    /\ nav_stack' = SubSeq(nav_stack, 1, Len(nav_stack) - 1)
    /\ filename' = nav_stack[Len(nav_stack)][1]
    /\ scroll' = nav_stack[Len(nav_stack)][2]

NavigateForwardToNewest ==
    /\ nav_stack' = Append(nav_stack, <<filename, scroll>>)
    /\ fwd_stack' = <<>>
    /\ filename' = fwd_stack[1][1]
    /\ scroll' = fwd_stack[1][2]

\* navigate_forward() on a non-empty forward stack
NavigateForward ==
    /\ nav_stack' = Append(nav_stack, <<filename, scroll>>)
    /\ fwd_stack' = SubSeq(fwd_stack, 1, Len(fwd_stack) - 1)
    /\ filename' = fwd_stack[Len(fwd_stack)][1]
    /\ scroll' = fwd_stack[Len(fwd_stack)][2]

\* ------------------------------------------------ main: the viewer loop
\* Up, Down, +, -, Backspace, Log: the viewer scrolls to another position,
\* here the top of the document or the furthest position
ViewerKeyScroll ==
    /\ pc = "viewer"
    /\ \E p \in {0, MaxScroll} : p # scroll /\ scroll' = p
    /\ lastNav' = NoNav
    /\ UNCHANGED <<harnessVars, guardVars, pickerVars, deviceVars, nav_stack, fwd_stack,
                   action, pc, screen, filename, last_file, last_scroll>>

\* a tap on a link of the document: navigate_link(url)
ViewerTapLink ==
    /\ pc = "viewer"
    /\ \E url \in LinkTargets :
         IF EndsWith(url, MD_EXT)
         THEN /\ Len(nav_stack) < MaxNav
              /\ NavigateLink(url)
              /\ lastNav' = NavDone("link")
         ELSE /\ lastNav' = NoNav
              /\ UNCHANGED <<filename, scroll, nav_stack, fwd_stack>>
    /\ UNCHANGED <<harnessVars, guardVars, pickerVars, deviceVars,
                   action, pc, screen, last_file, last_scroll>>

\* Escape and Left: navigate_back(), or, on an empty back stack, the loop
\* ends with action = 'back': the position is saved and the picker is
\* shown again
ViewerKeyBack ==
    /\ IF nav_stack # <<>>
       THEN /\ NavigateBack
            /\ lastNav' = NavDone("back")
            /\ UNCHANGED <<pickerVars, scroll_pos, pc, screen, last_file, last_scroll,
                           fileVars, exitVars>>
       ELSE /\ LeaveViewer
            /\ PickerOpen(last_file')
            /\ lastNav' = NoNav
            /\ UNCHANGED <<filename, scroll, nav_stack, fwd_stack>>
    /\ UNCHANGED <<args, ret, scopeVars, touchVars, splitVars, guardVars, action,
                   all_files, favorites, sort_col, sort_asc>>

ViewerKeyEsc ==
    /\ pc = "viewer"
    /\ ViewerKeyBack

ViewerKeyLeft ==
    /\ pc = "viewer"
    /\ ViewerKeyBack

\* Right: navigate_forward(), nothing on an empty forward stack
ViewerKeyRight ==
    /\ pc = "viewer"
    /\ IF fwd_stack # <<>>
       THEN /\ NavigateForward
            /\ lastNav' = NavDone("forward")
       ELSE /\ lastNav' = NoNav
            /\ UNCHANGED <<filename, scroll, nav_stack, fwd_stack>>
    /\ UNCHANGED <<harnessVars, guardVars, pickerVars, deviceVars,
                   action, pc, screen, last_file, last_scroll>>

\* KeyboardInterrupt in the viewer loop: action = 'exit', the position is
\* saved, then clear_screen(), ppl_guard.cleanup() and return
ViewerInterrupt ==
    /\ pc = "viewer"
    /\ action' = "exit"
    /\ LeaveViewer
    /\ \E restoreOk \in BOOLEAN : MainReturn(restoreOk)
    /\ ViewerGone
    /\ lastNav' = NoNav
    /\ UNCHANGED <<args, ret, scopeVars, touchVars, splitVars, pickerVars, filename,
                   all_files, favorites, sort_col, sort_asc>>

\* ------------------------------------------------------ the application
InitApp ==
    /\ args = <<>> /\ ret = <<>>
    /\ HSeparator \in {0, MaxSeparator}
    /\ saved_separator = <<>>
    /\ sepAtInit = HSeparator
    /\ evalFailed = {}
    /\ cleanupCalls = 0
    /\ pc = "start"
    /\ screen = "none"
    /\ items = <<>> /\ selected = 0
    /\ filename = None /\ scroll = 0
    /\ nav_stack = <<>> /\ fwd_stack = <<>> /\ action = "back"
    /\ last_file = None /\ last_scroll = 0
    /\ all_files \in DeviceListings
    /\ favorites = {} /\ sort_col = "name" /\ sort_asc = TRUE
    /\ scroll_pos = [f \in Documents |-> 0]
    /\ progress = [f \in Documents |-> 0]
    /\ lastNav = NoNav
    /\ ScopeIdle

Next ==
    \/ MainStart
    \/ PickerKeyUp
    \/ PickerKeyDown
    \/ PickerKeyEnter
    \/ PickerKeyEsc
    \/ PickerInterrupt
    \/ InterruptWhileLoading
    \/ ViewerKeyScroll
    \/ ViewerTapLink
    \/ ViewerKeyEsc
    \/ ViewerKeyLeft
    \/ ViewerKeyRight
    \/ ViewerInterrupt
    \/ ModuleFinally

Spec == InitApp /\ [][Next]_vars


\* ============================================ claims on the application
\* the guard has been torn down and the display cleared: cleanup() has run,
\* HSeparator is back at the value init() saw (the evaluator having
\* accepted every call) and clear_screen() has been the last drawing
TornDown ==
    /\ screen = "cleared"
    /\ cleanupCalls >= 1
    /\ (evalFailed = {} => HSeparator = sepAtInit)

\* C1 as stated: every user-initiated exit (Escape while the back history is
\* empty, or an interrupt), in the picker or in the viewer loop, tears the
\* locale guard down and clears the display.
C1_EveryExitTearsDown ==
    [][(\/ PickerKeyEsc
        \/ PickerInterrupt
        \/ InterruptWhileLoading
        \/ ViewerInterrupt
        \/ (ViewerKeyEsc /\ nav_stack = <<>>)) => TornDown']_vars

\* C1 amended: Escape in the picker and an interrupt in the picker, while a
\* document loads or in the viewer loop tear the locale guard down and clear
\* the display; Escape in the viewer with an empty back history remembers
\* the position and shows the picker again, the guard still in force.
C1_ExitsTearDownAndViewerEscapeReopensPicker ==
    [][/\ (\/ PickerKeyEsc
           \/ PickerInterrupt
           \/ InterruptWhileLoading
           \/ ViewerInterrupt) => TornDown'
       /\ (ViewerKeyEsc /\ nav_stack = <<>>) =>
            /\ pc' = "picker" /\ screen' = "picker"
            /\ last_file' = filename /\ last_scroll' = scroll
            /\ UNCHANGED <<HSeparator, saved_separator, cleanupCalls>>]_vars

\* an interrupt in the viewer loop has ended main(): the display is cleared
\* and a separator that was not 0 is back in place
C1_Witness ==
    /\ pc = "returned" /\ action = "exit"
    /\ screen = "cleared" /\ cleanupCalls = 1
    /\ sepAtInit = MaxSeparator /\ HSeparator = MaxSeparator

\* C4: right after a link to a '.md' target has been followed, the forward
\* stack is empty and the back stack is the one before the link with one
\* more entry, the (filename, scroll position) displayed before the link,
\* whatever links, backs and forwards came before.
C4_LinkClearsForwardAndPushesBack ==
    lastNav.op = "link" =>
        /\ fwd_stack = <<>>
        /\ nav_stack = Append(lastNav.pre[3], <<lastNav.pre[1], lastNav.pre[2]>>)

\* a link has been followed from a document reached by going back: both
\* histories held an entry before the link
C4_Witness ==
    /\ pc = "viewer" /\ lastNav.op = "link"
    /\ lastNav.pre[3] # <<>> /\ lastNav.pre[4] # <<>>
    /\ Len(nav_stack) = 2 /\ fwd_stack = <<>>

\* C5: navigate_back immediately followed by navigate_forward, and
\* navigate_forward immediately followed by navigate_back, leave the
\* displayed filename, its scroll position, the back stack and the forward
\* stack exactly as they were before the pair.
C5_BackForwardSymmetric ==
    [][(\/ lastNav.op = "back" /\ lastNav'.op = "forward"
        \/ lastNav.op = "forward" /\ lastNav'.op = "back")
       => NavState' = lastNav.pre]_vars

\* back then forward has been done from a scrolled document with entries
\* left on both histories
C5_Witness ==
    /\ pc = "viewer"
    /\ lastNav.prev = "back" /\ lastNav.op = "forward"
    /\ scroll = MaxScroll
    /\ nav_stack # <<>> /\ fwd_stack # <<>>

\* C6: Enter on a non-empty list ends file_picker with the selected row's
\* filename, Escape and an interrupt end it with None, and Enter on an empty
\* list leaves the picker open as it was.
C6_PickerTerminatesOnEnterEscInterrupt ==
    [][/\ PickerKeyEnter =>
            IF items # <<>>
            THEN pc' = "viewer" /\ filename' = items[selected + 1][1]
            ELSE pc' = "picker" /\ UNCHANGED <<items, selected, filename, screen>>
       /\ (PickerKeyEsc \/ PickerInterrupt) =>
            filename' = None /\ pc' = "returned"]_vars

\* Enter on the second row of the first picker of the run, with no bookmark
\* to place the selection: the document shown is that row's
C6_Witness ==
    /\ pc = "viewer" /\ filename = FILE_B /\ lastNav = NoNav
    /\ nav_stack = <<>> /\ fwd_stack = <<>>
    /\ last_file = None
    /\ scroll_pos = [f \in Documents |-> 0]
    /\ progress = [f \in Documents |-> 0]

\* C10: a cleanup() after the first one (main()'s, then the module's finally
\* clause) leaves HSeparator where the first one left it, at the value
\* init() saw (the evaluator having accepted every call).
C10_SecondCleanupChangesNothing ==
    [][(cleanupCalls >= 1 /\ cleanupCalls' > cleanupCalls /\ evalFailed' = {})
       => (HSeparator' = HSeparator /\ HSeparator' = sepAtInit)]_vars

\* main() has returned and the finally clause has run: two cleanups after
\* one init, and a separator that was not 0 is in place
C10_Witness ==
    /\ pc = "done" /\ cleanupCalls = 2 /\ evalFailed = {}
    /\ saved_separator = <<MaxSeparator>>
    /\ sepAtInit = MaxSeparator /\ HSeparator = MaxSeparator


\* C11: in every state of the picker loop and of the viewer loop init() has
\* completed, no cleanup() has run yet, and HSeparator holds the forced
\* value 0 (the evaluator having accepted init's calls).
C11_SeparatorForcedWhileRunning ==
    pc \in {"picker", "viewer"} =>
        /\ saved_separator = <<sepAtInit>>
        /\ cleanupCalls = 0
        /\ (evalFailed = {} => HSeparator = 0)

\* the viewer shows a linked document on a device whose separator was not 0
\* at start: the forced 0 is in place and the old value is saved
C11_Witness ==
    /\ pc = "viewer" /\ nav_stack # <<>>
    /\ sepAtInit = MaxSeparator /\ saved_separator = <<MaxSeparator>>
    /\ HSeparator = 0 /\ cleanupCalls = 0


\* ============================================ ppl_guard.py: class PPLSafe
SafeEnterRecordingAfterForcing(readOk, forceOk) ==
    /\ scoped_sep' = IF forceOk THEN HEvalAssign([target |-> "HSeparator", value |-> <<48>>])
                     ELSE scoped_sep
    /\ prev' = IF readOk THEN <<scoped_sep'>> ELSE <<0>>

\* PPLSafe.__enter__(): readOk / forceOk as for init()
SafeEnter(readOk, forceOk) ==
    /\ prev' = IF readOk THEN <<scoped_sep>> ELSE <<0>>
    /\ scoped_sep' = IF forceOk THEN HEvalAssign([target |-> "HSeparator", value |-> <<48>>])
                     ELSE scoped_sep

\* PPLSafe.__exit__(*args): the write of self._prev, then return False
SafeExit(restoreOk) ==
    /\ scoped_sep' = IF restoreOk THEN HEvalAssign(AssignCommand(prev[1]))
                     ELSE scoped_sep
    /\ ret' = <<FALSE>>
    /\ UNCHANGED prev

\* ------------------- one PPLSafe scope beside one init()/cleanup() pair
\* two devices start with the same HSeparator and their evaluators fail on
\* the same calls: one runs init() ... cleanup(), the other runs
\* with PPLSafe(): ... around the same body
InitSafe ==
    /\ args = <<>> /\ ret = <<>>
    /\ HSeparator \in 0..MaxSeparator
    /\ scoped_sep = HSeparator
    /\ sepAtInit = HSeparator
    /\ saved_separator = <<>> /\ prev = <<>>
    /\ evalFailed = {} /\ cleanupCalls = 0
    /\ pc = "outside"
    /\ items = <<>> /\ selected = 0
    /\ scroll = 0 /\ nav_stack = <<>> /\ fwd_stack = <<>> /\ action = "back"
    /\ screen = "none" /\ filename = None /\ last_file = None /\ last_scroll = 0
    /\ all_files = <<>> /\ favorites = {} /\ sort_col = "name" /\ sort_asc = TRUE
    /\ scroll_pos = <<>> /\ progress = <<>>
    /\ lastNav = <<>>
    /\ bookmark_file = None
    /\ bookmark_saved = FALSE
    /\ split_mode = FALSE /\ viewport = FULL_VIEWPORT
    /\ TouchIdle

SafeRest ==
    UNCHANGED <<args, pickerVars, viewerVars, deviceVars, fileVars, exitVars, splitVars, touchVars,
                screen, filename, last_file, last_scroll, lastNav>>

\* init() on the first device, with PPLSafe(): entered on the second
ScopeEnter ==
    /\ pc = "outside"
    /\ \E readOk \in BOOLEAN, forceOk \in BOOLEAN :
         GuardInit(readOk, forceOk) /\ SafeEnter(readOk, forceOk)
    /\ pc' = "inside"
    /\ UNCHANGED ret
    /\ SafeRest

\* the body changes the setting, on both devices alike
ScopeBodyWrites ==
    /\ pc = "inside"
    /\ \E v \in 0..MaxSeparator :
         v # HSeparator /\ HSeparator' = v /\ scoped_sep' = v
    /\ UNCHANGED <<pc, ret, prev, saved_separator, sepAtInit, evalFailed, cleanupCalls>>
    /\ SafeRest

\* the body ends or raises: cleanup() on the first device, __exit__ on the
\* second; with a falsy __exit__ result the with statement re-raises
ScopeLeave(raised) ==
    /\ pc = "inside"
    /\ \E restoreOk \in BOOLEAN : GuardCleanup(restoreOk) /\ SafeExit(restoreOk)
    /\ pc' = IF raised /\ ret'[1] = FALSE THEN "propagated" ELSE "left"
    /\ SafeRest

ScopeBodyReturns == ScopeLeave(FALSE) /\ pc' = "left"

ScopeBodyRaises == ScopeLeave(TRUE) /\ pc' \in {"propagated", "left"}

SpecSafe ==
    InitSafe /\ [][ScopeEnter \/ ScopeBodyWrites \/ ScopeBodyReturns \/ ScopeBodyRaises]_vars

\* C12: PPLSafe does to HSeparator what init()/cleanup() do: __enter__
\* records the current value and forces 0, __exit__ writes the recorded
\* value back, so that the two devices agree at every step; and __exit__
\* returns False, so an exception raised in the body propagates after the
\* restore.
C12_PPLSafeEquivalentToInitCleanup ==
    [][/\ scoped_sep' = HSeparator'
       /\ (pc' = "inside" => prev' = saved_separator')
       /\ ScopeEnter =>
            /\ "read" \notin evalFailed' => prev' = <<scoped_sep>>
            /\ "force" \notin evalFailed' => scoped_sep' = 0
       /\ (ScopeBodyReturns \/ ScopeBodyRaises) =>
            /\ ret' = <<FALSE>>
            /\ "restore" \notin evalFailed' => scoped_sep' = prev[1]
            /\ evalFailed' = {} => scoped_sep' = sepAtInit
       /\ ScopeBodyRaises => pc' = "propagated"]_vars

\* the body of a scope entered at a separator that was not 0 has changed
\* the setting and raised: the old value is back and the exception is on
\* its way out
C12_Witness ==
    /\ pc = "propagated" /\ evalFailed = {}
    /\ sepAtInit = MaxSeparator /\ prev = <<MaxSeparator>>
    /\ scoped_sep = MaxSeparator /\ HSeparator = MaxSeparator
    /\ ret = <<FALSE>>


\* C13: init() and cleanup() return normally whichever evaluator calls
\* raise; when the read of HSeparator raises in init() the saved value is 0
\* and a later cleanup() whose write is accepted leaves HSeparator at 0; a
\* cleanup() before any init() makes no evaluator call and changes nothing.
C13_GuardSwallowsEvaluatorFailures ==
    [][/\ CallInit =>
            /\ pc' = "guarded"
            /\ "read" \in evalFailed' => saved_separator' = <<0>>
       /\ (CallCleanup /\ pc # "unguarded") =>
            /\ pc' = "restored"
            /\ ("read" \in evalFailed /\ "restore" \notin evalFailed')
                 => HSeparator' = 0
       /\ (CallCleanup /\ pc = "unguarded") =>
            /\ pc' = "unguarded"
            /\ UNCHANGED <<HSeparator, saved_separator, evalFailed>>]_vars

\* the read failed in init() on a device whose separator was not 0, the
\* forcing write failed too, and cleanup() has written the default 0
C13_Witness ==
    /\ pc = "restored" /\ evalFailed = {"read", "force"}
    /\ sepAtInit = MaxSeparator /\ saved_separator = <<0>>
    /\ HSeparator = 0


\* ===================================== main.py: load_last_file and the two calls
LoadLastFileKeepingSpaces(text, readOk) ==
    IF text = None \/ ~readOk THEN <<None, 0>>
    ELSE LET lines == Split(text, NEWLINE)
         IN  IF Len(lines) >= 2
             THEN IF IntOf(lines[2]) = <<>> THEN <<None, 0>>
                  ELSE <<lines[1], IntOf(lines[2])[1]>>
             ELSE <<lines[1], 0>>

\* load_last_file() on a bookmark file of the given text; None is a
\* missing file, ~readOk a file that cannot be opened or read
LoadLastFile(text, readOk) ==
    IF text = None \/ ~readOk THEN <<None, 0>>
    ELSE LET lines == Split(Strip(text), NEWLINE)
         IN  IF Len(lines) >= 2
             THEN IF IntOf(lines[2]) = <<>> THEN <<None, 0>>
                  ELSE <<lines[1], IntOf(lines[2])[1]>>
             ELSE <<lines[1], 0>>

\* ---------------------- save_last_file and load_last_file under test
FileChars == {97, 49, 45, 32, 10}       \* 'a', '1', '-', ' ', '\n'
NameChars == {97, 32, 10}               \* 'a', ' ', '\n'

StringsOver(chars, n) == UNION { [1..k -> chars] : k \in 0..n }

\* either a load of whatever file is there, or a save followed by a load
InitBookmark ==
    /\ args \in [op : {"load"}, filename : {<<>>}, scroll : {0}]
          \cup [op : {"save_load"},
                filename : StringsOver(NameChars, MaxNameLen),
                scroll : (0 - MaxSavedScroll)..MaxSavedScroll]
    /\ IF args.op = "load"
       THEN bookmark_file \in {None} \cup StringsOver(FileChars, MaxFileLen)
       ELSE bookmark_file \in {None, <<97, 10, 49>>}
    /\ ret = <<>>
    /\ pc = "call"
    /\ HSeparator = 0 /\ saved_separator = <<>> /\ sepAtInit = 0
    /\ evalFailed = {} /\ cleanupCalls = 0
    /\ items = <<>> /\ selected = 0
    /\ scroll = 0 /\ nav_stack = <<>> /\ fwd_stack = <<>> /\ action = "back"
    /\ screen = "none" /\ filename = None /\ last_file = None /\ last_scroll = 0
    /\ all_files = <<>> /\ favorites = {} /\ sort_col = "name" /\ sort_asc = TRUE
    /\ scroll_pos = <<>> /\ progress = <<>>
    /\ lastNav = <<>>
    /\ prev = <<>> /\ scoped_sep = 0
    /\ bookmark_saved = FALSE
    /\ split_mode = FALSE /\ viewport = FULL_VIEWPORT
    /\ TouchIdle

BookmarkRest ==
    UNCHANGED <<args, guardVars, pickerVars, viewerVars, deviceVars, scopeVars, touchVars,
                exitVars, splitVars, screen, filename, last_file, last_scroll, lastNav>>

\* save_last_file(filename, scroll): the write succeeds, or open() raises
\* and the file is as before, or write() raises after open() has emptied
\* the file; nothing is raised to the caller
CallSaveLastFile ==
    /\ pc = "call" /\ args.op = "save_load"
    /\ \E outcome \in {"written", "open raised", "write raised"} :
         /\ bookmark_file' =
              CASE outcome = "written" -> BookmarkText(args.filename, args.scroll)
                [] outcome = "open raised" -> bookmark_file
                [] outcome = "write raised" -> <<>>
         /\ pc' = IF outcome = "written" THEN "saved" ELSE "save failed"
    /\ UNCHANGED ret
    /\ BookmarkRest

\* load_last_file()
CallLoadLastFile ==
    /\ \/ pc = "call" /\ args.op = "load"
       \/ pc \in {"saved", "save failed"}
    /\ \E readOk \in BOOLEAN :
         /\ ret' = LoadLastFile(bookmark_file, readOk)
         /\ pc' = CASE ~readOk -> "load failed"
                    [] readOk /\ pc = "save failed" -> "loaded after failed save"
                    [] OTHER -> "loaded"
    /\ UNCHANGED bookmark_file
    /\ BookmarkRest

SpecBookmark == InitBookmark /\ [][CallSaveLastFile \/ CallLoadLastFile]_vars


\* a filename with no newline and no whitespace at either end
PlainName(fname) == Find(fname, NEWLINE) < 0 /\ Strip(fname) = fname

\* a text of one line: no newline but, possibly, a last one
OneLine(text) ==
    /\ Len(text) > 0
    /\ \A i \in 1..(Len(text) - 1) : text[i] # 10

\* the line of a one-line text
TheLine(text) ==
    IF text[Len(text)] = 10 THEN SubSeq(text, 1, Len(text) - 1) ELSE text

\* C14 as stated: for every filename with no newline and no leading or
\* trailing whitespace and every integer s, save_last_file(filename, s)
\* followed by load_last_file() returns (filename, s); and a bookmark file
\* of only one line returns (that line, 0).
C14_BookmarkRoundTrip ==
    /\ (pc = "loaded" /\ args.op = "save_load" /\ PlainName(args.filename))
         => ret = <<args.filename, args.scroll>>
    /\ (pc = "loaded" /\ args.op = "load" /\ bookmark_file # None
        /\ OneLine(bookmark_file))
         => ret = <<TheLine(bookmark_file), 0>>

\* C14 amended: the round trip holds for every such filename that is not
\* empty (saving the empty name s is read back as (str(s), 0)); and a
\* bookmark file whose text without the surrounding whitespace has no
\* newline returns (that text without the surrounding whitespace, 0).
C14_BookmarkRoundTripOfNonEmptyNames ==
    /\ (pc = "loaded" /\ args.op = "save_load" /\ PlainName(args.filename))
         => IF args.filename # <<>>
            THEN ret = <<args.filename, args.scroll>>
            ELSE ret = <<StrInt(args.scroll), 0>>
    /\ (pc = "loaded" /\ args.op = "load" /\ bookmark_file # None
        /\ Find(Strip(bookmark_file), NEWLINE) < 0)
         => ret = <<Strip(bookmark_file), 0>>

\* the name 'a a' and the lowest scroll position have been saved and read
\* back
C14_Witness ==
    /\ pc = "loaded" /\ args.op = "save_load"
    /\ args.filename = <<97, 32, 97>> /\ args.scroll = 0 - MaxSavedScroll
    /\ bookmark_file = <<97, 32, 97, 10, 45>> \o Str(MaxSavedScroll)
    /\ ret = <<args.filename, args.scroll>>

\* no valid bookmark: the file is missing or cannot be read, or it is
\* empty, or it has a second line that int() refuses
NoValidBookmark ==
    \/ bookmark_file = None
    \/ pc = "load failed"
    \/ bookmark_file = <<>>
    \/ LET lines == Split(Strip(bookmark_file), NEWLINE)
       IN  Len(lines) >= 2 /\ IntOf(lines[2]) = <<>>

\* C15: load_last_file() returns (None, 0) whenever there is no valid
\* bookmark (file missing or unreadable, empty file, second line not an
\* integer), and neither it nor a save_last_file() whose write fails raises.
C15_BookmarkFailuresGiveDefault ==
    (pc \in {"loaded", "load failed", "loaded after failed save"} /\ NoValidBookmark)
        => ret = <<None, 0>>


\* ================================ browser.py: file_picker, touch and menu
COL_DIV1 == 27
COL_DIV2 == 255
HDR_Y == 38
SEP_Y == 52
ITEM_Y0 == 54
ITEM_H == 20
MAX_VISIBLE == 8
LONG_PRESS_MS == 600
NEAR_START == 10
menu_y == 220

\* draw_screen(): the 0-based index of the first row drawn
WindowStart(sel) == IF sel >= MAX_VISIBLE THEN sel - MAX_VISIBLE + 1 ELSE 0

\* draw_screen(): the 0-based indexes of the rows drawn
WindowRows(its, sel) ==
    { i \in 0..(Len(its) - 1) : WindowStart(sel) <= i /\ i < WindowStart(sel) + MAX_VISIBLE }

\* the row index the handlers compute for a touch that started at height y
TappedIndex(y, sel) == WindowStart(sel) + ((y - ITEM_Y0) \div ITEM_H)

\* the loop "for i in range(len(items)): if items[i][0] == fname: ... break"
\* run when fname is truthy: the index of its first row, else dflt
IndexOfOr(its, fname, dflt) ==
    IF fname # None /\ fname # <<>> /\ \E i \in 1..Len(its) : its[i][1] = fname
    THEN (CHOOSE i \in 1..Len(its) :
            /\ its[i][1] = fname
            /\ \A j \in 1..(i - 1) : its[j][1] # fname) - 1
    ELSE dflt

\* items[selected][0] if items else None
SelectedFile == IF items # <<>> THEN items[selected + 1][1] ELSE None

\* the lists _build_file_list can return, as BuildFileList, found without
\* going through the arrangements when no two rows tie
PickerItems(listing, favs, col, asc, ext, sizes) ==
    LET its == RawItems(GetFilesFrom(listing, ext), favs, sizes)
        n == Len(its)
        before(x) == { j \in 1..n : SortsBefore(col, asc, its[j], its[x]) }
    IN  IF \A i, j \in 1..n : i # j =>
              (SortsBefore(col, asc, its[i], its[j]) \/ SortsBefore(col, asc, its[j], its[i]))
        THEN { [k \in 1..n |-> its[CHOOSE x \in 1..n : Cardinality(before(x)) = k - 1]] }
        ELSE SortOutcomes(its, col, asc)

\* _build_file_list(ext, sizes) inside the picker: sizes is the map taken
\* when the picker opened
Rebuilt(listing, favs, col, asc) ==
    PickerItems(listing, favs, col, asc, MD_EXT, args.sizes)


\* ------------------------------------------ what the user and the device do
\* the long listing: 'a.md', 'b.md', ... and their distinct sizes
LongListing == [i \in 1..MaxRows |-> <<96 + i>> \o MD_EXT]
LongSizes == [f \in Range(LongListing) |-> f[1] - 96]

\* the short listings the picker is opened on: those of the application and
\* one of three documents, two of them with the same lower-cased name
PickerListings == DeviceListings \cup { <<FILE_B, FILE_B_UPPER, FILE_A>> }

\* the files whose star the user taps
StarFiles == {LongListing[1], LongListing[MaxRows], FILE_B}

\* the row positions touched: the first two, the last one drawn, and those
\* of the row area below it
TapRows ==
    {0, 1, MAX_VISIBLE - 1}
    \cup { r \in 0..((menu_y - 1 - ITEM_Y0) \div ITEM_H) : r >= MAX_VISIBLE }

\* where a touch can start: above the table, on each header column, on the
\* star and on the name of a row position, on the menu
TapPoints ==
    { <<100, 20>>, <<10, HDR_Y + 7>>, <<100, HDR_Y + 7>>, <<280, HDR_Y + 7>>,
      <<100, menu_y + 5>> }
    \cup { <<x, ITEM_Y0 + r * ITEM_H + 5>> : x \in {10, 100}, r \in TapRows }

\* what get_ticks() returns when a touch starts
TickStarts == {1}

\* how far from its start the finger is found at a later poll
Drifts == {0, NEAR_START - 1, NEAR_START}

\* the ticks between the start of a touch and a later poll
Elapsed == {LONG_PRESS_MS - 1, LONG_PRESS_MS}

\* get_menu_tap(tap_x, tap_y, menu_y): no slot, or one of the six
MenuSlots == {-1, 0, 4}

OPEN_PREFIX == <<111, 112, 101, 110, 58>>           \* 'open:'
RELOAD == <<114, 101, 108, 111, 97, 100>>           \* 'reload'

\* s.startswith(e)
StartsWith(s, e) == Len(s) >= Len(e) /\ SubSeq(s, 1, Len(e)) = e

\* what on_menu_tap(slot, sel_file) can return: None, False, True, '',
\* 'reload', 'open:b.md' and another string
PyNone == [kind |-> "none", b |-> FALSE, s |-> <<>>]
PyBool(v) == [kind |-> "bool", b |-> v, s |-> <<>>]
PyStr(v) == [kind |-> "str", b |-> FALSE, s |-> v]
CallbackResults ==
    { PyNone, PyBool(FALSE), PyBool(TRUE), PyStr(<<>>), PyStr(RELOAD),
      PyStr(OPEN_PREFIX \o FILE_B), PyStr(<<120>>) }

\* bool(r)
Truthy(r) == (r.kind = "bool" /\ r.b) \/ (r.kind = "str" /\ r.s # <<>>)

\* the listing without the file f
Without(listing, f) == SelectSeq(listing, LAMBDA x : x # f)

\* what list_files() returns when 'reload' rebuilds the list: the same
\* files, or (followed on short listings) the selected file deleted, or
\* every file deleted
ReloadListings ==
    {all_files} \cup
    (IF Len(all_files) <= MaxListing
     THEN {Without(all_files, SelectedFile), <<>>} ELSE {})

\* what one pass of the loop did: did names it, file is the file a context
\* menu was opened for or a menu result named, drew says that draw_screen()
\* ran, called holds the arguments on_menu_tap was called with and result
\* what it returned; held and moved are the ticks since the touch started
\* and the distance from its start at the poll that fired a long press;
\* also names a second action taken in the same pass
Ev(did, file, drew) ==
    [did |-> did, file |-> file, drew |-> drew, called |-> <<>>, result |-> PyNone,
     held |-> -1, moved |-> -1, also |-> "nothing"]

\* --------------------------- the picker's touch handling, under test
\* file_picker has drawn its first screen, the selection on the highlight
\* it was given or on the first row
InitPicker ==
    /\ \/ /\ all_files = LongListing
          /\ args \in [on_menu_tap : {TRUE}, sizes : {LongSizes}]
       \/ /\ all_files \in PickerListings
          /\ args \in [on_menu_tap : BOOLEAN,
                       sizes : {[f \in Range(GetFilesFrom(all_files, MD_EXT)) |->
                                   FileSizeOnDevice(f)]}]
    /\ ret = <<>>
    /\ favorites = {} /\ sort_col = "name" /\ sort_asc = TRUE
    /\ items \in Rebuilt(all_files, favorites, sort_col, sort_asc)
    /\ selected \in {0} \cup { i - 1 : i \in 1..Len(items) }
    /\ pc = "picker" /\ screen = "picker"
    /\ HSeparator = 0 /\ saved_separator = <<MaxSeparator>> /\ sepAtInit = MaxSeparator
    /\ evalFailed = {} /\ cleanupCalls = 0
    /\ filename = None /\ scroll = 0
    /\ nav_stack = <<>> /\ fwd_stack = <<>> /\ action = "back"
    /\ last_file = None /\ last_scroll = 0
    /\ scroll_pos = [f \in Documents \cup Range(LongListing) |-> 0]
    /\ progress = [f \in Documents \cup Range(LongListing) |-> 0]
    /\ lastNav = NoNav
    /\ ScopeIdle

\* what no touch handler of the picker writes
TouchRest ==
    UNCHANGED <<args, ret, scopeVars, fileVars, exitVars, splitVars, guardVars,
                last_file, last_scroll, lastNav,
                drag_last_y, scrollbar_dragging, menu_visible>>

\* the pass changes neither the list nor the preferences and stays in the loop
PickerStays ==
    UNCHANGED <<items, selected, deviceVars, viewerVars, pc, screen, filename>>

\* file_picker returns f: main opens it
PickerReturns(f) ==
    /\ OpenViewer(f)
    /\ UNCHANGED deviceVars

PickerResortedToFirstRow(favs, col, asc) ==
    /\ favorites' = favs /\ sort_col' = col /\ sort_asc' = asc
    /\ items' \in Rebuilt(all_files, favs, col, asc)
    /\ selected' = 0
    /\ UNCHANGED <<all_files, scroll_pos, viewerVars, pc, screen, filename>>

\* the end of _header_tap and of _star_tap: the list is rebuilt under the
\* new preferences and the selection put back on the file it was on
PickerResorted(favs, col, asc) ==
    /\ favorites' = favs /\ sort_col' = col /\ sort_asc' = asc
    /\ items' \in Rebuilt(all_files, favs, col, asc)
    /\ selected' = IndexOfOr(items', SelectedFile, 0)
    /\ UNCHANGED <<all_files, scroll_pos, viewerVars, pc, screen, filename>>


\* once a touch is over, where and when it started and whether its long
\* press fired are not read again before the next touch assigns them: they
\* are kept at their starting values
TouchForgotten ==
    /\ tap_x' = -1 /\ tap_y' = -1
    /\ touch_start_time' = 0
    /\ long_press_fired' = FALSE

\* a poll finds the finger down and no touch in progress
PickerTouchDown ==
    /\ pc = "picker" /\ ~touch_down
    /\ \E pt \in TapPoints, t \in TickStarts :
         /\ tap_x' = pt[1] /\ tap_y' = pt[2]
         /\ touch_start_time' = t
    /\ touch_down' = TRUE
    /\ long_press_fired' = FALSE
    /\ event' = Ev("down", None, FALSE)
    /\ UNCHANGED fired_touch
    /\ PickerStays
    /\ TouchRest

PickerHoldAtRefiring(tx, ty, now) ==
    LET dist == (IF tx >= tap_x THEN tx - tap_x ELSE tap_x - tx)
                + (IF ty >= tap_y THEN ty - tap_y ELSE tap_y - ty)
        tapped == TappedIndex(tap_y, selected)
        fired(did, file, drew) ==
            [Ev(did, file, drew) EXCEPT !.held = now - touch_start_time, !.moved = dist]
    IN  IF /\ items # <<>>
           /\ tap_y >= ITEM_Y0 /\ tap_y < menu_y
           /\ dist < NEAR_START
           /\ now - touch_start_time >= LONG_PRESS_MS
        THEN /\ long_press_fired' = TRUE
             /\ IF tapped < Len(items)
                THEN /\ event' = fired("tag menu", items[tapped + 1][1], TRUE)
                ELSE /\ event' = fired("long press on no row", None, FALSE)
        ELSE /\ event' = Ev("hold", None, FALSE)
             /\ UNCHANGED long_press_fired

\* a poll finds the finger down at (tx, ty), at tick now, during a touch:
\* the long press
PickerHoldAt(tx, ty, now) ==
    LET dist == (IF tx >= tap_x THEN tx - tap_x ELSE tap_x - tx)
                + (IF ty >= tap_y THEN ty - tap_y ELSE tap_y - ty)
        tapped == TappedIndex(tap_y, selected)
        fired(did, file, drew) ==
            [Ev(did, file, drew) EXCEPT !.held = now - touch_start_time, !.moved = dist]
    IN  IF /\ ~long_press_fired /\ items # <<>>
           /\ tap_y >= ITEM_Y0 /\ tap_y < menu_y
           /\ dist < NEAR_START
           /\ now - touch_start_time >= LONG_PRESS_MS
        THEN /\ long_press_fired' = TRUE
             /\ IF tapped < Len(items)
                THEN \* show_context_menu(...), set_tag on a choice, draw_screen()
                     /\ event' = fired("tag menu", items[tapped + 1][1], TRUE)
                ELSE /\ event' = fired("long press on no row", None, FALSE)
        ELSE /\ event' = Ev("hold", None, FALSE)
             /\ UNCHANGED long_press_fired

PickerTouchHold ==
    /\ pc = "picker" /\ touch_down
    /\ \E d \in Drifts, e \in Elapsed :
         PickerHoldAt(tap_x + d, tap_y, touch_start_time + e)
    /\ UNCHANGED <<touch_down, tap_x, tap_y, touch_start_time, fired_touch>>
    /\ PickerStays
    /\ TouchRest

PickerDoMenuResettingSelection(slot) ==
    IF ~args.on_menu_tap
    THEN event' = Ev("menu", None, FALSE) /\ PickerStays
    ELSE \E result \in CallbackResults :
           LET ev == [Ev("menu", None, FALSE) EXCEPT !.called = <<slot, SelectedFile>>,
                                                     !.result = result]
           IN  IF result.kind = "str" /\ result.s = RELOAD
               THEN /\ all_files' \in ReloadListings
                    /\ items' \in Rebuilt(all_files', favorites, sort_col, sort_asc)
                    /\ selected' =
                         IndexOfOr(items', SelectedFile, 0)
                    /\ event' = [ev EXCEPT !.did = "menu reload", !.drew = TRUE]
                    /\ UNCHANGED <<favorites, sort_col, sort_asc, scroll_pos,
                                   viewerVars, pc, screen, filename>>
               ELSE IF result.kind = "str" /\ StartsWith(result.s, OPEN_PREFIX)
               THEN /\ PickerReturns(SubSeq(result.s, 6, Len(result.s)))
                    /\ event' = [ev EXCEPT !.did = "menu open",
                                           !.file = SubSeq(result.s, 6, Len(result.s))]
               ELSE IF Truthy(result)
               THEN /\ event' = [ev EXCEPT !.did = "menu redraw", !.drew = TRUE]
                    /\ PickerStays
               ELSE /\ event' = ev
                    /\ PickerStays

\* _do_menu(slot) and what file_picker does with its result
PickerDoMenu(slot) ==
    IF ~args.on_menu_tap
    THEN event' = Ev("menu", None, FALSE) /\ PickerStays
    ELSE \E result \in CallbackResults :
           LET ev == [Ev("menu", None, FALSE) EXCEPT !.called = <<slot, SelectedFile>>,
                                                     !.result = result]
           IN  IF result.kind = "str" /\ result.s = RELOAD
               THEN /\ all_files' \in ReloadListings
                    /\ items' \in Rebuilt(all_files', favorites, sort_col, sort_asc)
                    /\ selected' =
                         IndexOfOr(items', SelectedFile,
                                   IF selected >= Len(items')
                                   THEN (IF Len(items') > 0 THEN Len(items') - 1 ELSE 0)
                                   ELSE selected)
                    /\ event' = [ev EXCEPT !.did = "menu reload", !.drew = TRUE]
                    /\ UNCHANGED <<favorites, sort_col, sort_asc, scroll_pos,
                                   viewerVars, pc, screen, filename>>
               ELSE IF result.kind = "str" /\ StartsWith(result.s, OPEN_PREFIX)
               THEN /\ PickerReturns(SubSeq(result.s, 6, Len(result.s)))
                    /\ event' = [ev EXCEPT !.did = "menu open",
                                           !.file = SubSeq(result.s, 6, Len(result.s))]
               ELSE IF Truthy(result)
               THEN /\ event' = [ev EXCEPT !.did = "menu redraw", !.drew = TRUE]
                    /\ PickerStays
               ELSE /\ event' = ev
                    /\ PickerStays

PickerRowTapOpeningAny(tapped) ==
    IF tap_x < COL_DIV1
    THEN /\ items[tapped + 1][1] \in StarFiles
         /\ PickerResorted((favorites \cup {items[tapped + 1][1]})
                              \ (favorites \cap {items[tapped + 1][1]}),
                           sort_col, sort_asc)
         /\ event' = Ev("star", None, TRUE)
    ELSE /\ PickerReturns(items[tapped + 1][1])
         /\ event' = Ev("open", None, FALSE)

\* the release on the row with index tapped < len(items)
PickerRowTap(tapped) ==
    IF tap_x < COL_DIV1
    THEN \* _star_tap(tapped): file_prefs.toggle_favorite, then the rebuild
         /\ items[tapped + 1][1] \in StarFiles
         /\ PickerResorted((favorites \cup {items[tapped + 1][1]})
                              \ (favorites \cap {items[tapped + 1][1]}),
                           sort_col, sort_asc)
         /\ event' = Ev("star", None, TRUE)
    ELSE IF tapped = selected
    THEN /\ PickerReturns(items[selected + 1][1])
         /\ event' = Ev("open", None, FALSE)
    ELSE /\ selected' = tapped
         /\ event' = Ev("select", None, TRUE)
         /\ UNCHANGED <<items, deviceVars, viewerVars, pc, screen, filename>>

\* a poll finds no finger during a touch: the release
PickerTouchUp ==
    /\ pc = "picker" /\ touch_down
    /\ touch_down' = FALSE
    /\ UNCHANGED fired_touch
    /\ IF long_press_fired
       THEN event' = Ev("release ignored", None, FALSE) /\ PickerStays
       ELSE IF HDR_Y <= tap_y /\ tap_y < SEP_Y /\ 5 < tap_x /\ tap_x < 315
       THEN \* _header_tap(tap_x): file_prefs.cycle_sort(column), rebuild, draw
            /\ \E asc \in BOOLEAN :
                 PickerResorted(favorites,
                                IF tap_x < COL_DIV1 THEN "fav"
                                ELSE IF tap_x < COL_DIV2 THEN "name" ELSE "size",
                                asc)
            /\ event' = Ev("sort", None, TRUE)
       ELSE IF tap_y >= menu_y
       THEN \E slot \in MenuSlots :
              IF slot >= 0 THEN PickerDoMenu(slot)
              ELSE event' = Ev("no slot", None, FALSE) /\ PickerStays
       ELSE IF items # <<>> /\ tap_y >= ITEM_Y0 /\ tap_y < menu_y
                 /\ TappedIndex(tap_y, selected) < Len(items)
       THEN PickerRowTap(TappedIndex(tap_y, selected))
       ELSE event' = Ev("nothing", None, FALSE) /\ PickerStays
    /\ TouchForgotten
    /\ TouchRest

SpecPicker ==
    InitPicker /\ [][PickerTouchDown \/ PickerTouchHold \/ PickerTouchUp]_vars

\* the whole loop of file_picker: the keys and the touches
SpecPickerLoop ==
    InitPicker
    /\ [][PickerKeyUp \/ PickerKeyDown \/ PickerKeyEnter \/ PickerKeyEsc
          \/ PickerTouchDown \/ PickerTouchHold \/ PickerTouchUp]_vars


\* the release of a touch that started on the menu bar and fired no long press
MenuTap == touch_down /\ ~touch_down' /\ ~long_press_fired /\ tap_y >= menu_y

\* C16: a tap on a menu slot calls on_menu_tap(slot, selected filename or
\* None); on 'open:<f>' file_picker returns <f>; on 'reload' the list is
\* rebuilt, the selection stays on the same filename if it is still listed
\* and is otherwise clamped into range, and the screen is redrawn; on any
\* other truthy result the screen is redrawn and nothing else changes; on a
\* falsy result, a missing callback or no slot nothing changes and the
\* picker goes on.
C16_MenuCallbackProtocol ==
    [][MenuTap =>
        LET r == event'.result
            called == event'.called # <<>>
            untouched == /\ UNCHANGED <<items, selected, deviceVars, filename, screen>>
                         /\ pc' = "picker"
        IN  /\ called => /\ args.on_menu_tap
                         /\ event'.called[1] \in MenuSlots /\ event'.called[1] >= 0
                         /\ event'.called[2] = SelectedFile
            /\ ~called => (untouched /\ ~event'.drew /\ r = PyNone)
            /\ (called /\ r = PyStr(RELOAD)) =>
                 /\ pc' = "picker" /\ event'.drew
                 /\ items' \in Rebuilt(all_files', favorites, sort_col, sort_asc)
                 /\ UNCHANGED <<favorites, sort_col, sort_asc>>
                 /\ IF \E i \in 1..Len(items') : items'[i][1] = SelectedFile
                    THEN items'[selected' + 1][1] = SelectedFile
                    ELSE IF selected < Len(items') THEN selected' = selected
                    ELSE IF items' = <<>> THEN selected' = 0
                    ELSE selected' = Len(items') - 1
            /\ (called /\ r = PyStr(OPEN_PREFIX \o FILE_B)) =>
                 pc' = "viewer" /\ filename' = FILE_B
            /\ (called /\ r \in {PyBool(TRUE), PyStr(<<120>>)}) =>
                 untouched /\ event'.drew
            /\ (called /\ r \in {PyNone, PyBool(FALSE), PyStr(<<>>)}) =>
                 untouched /\ ~event'.drew]_vars

\* 'reload' has found the selected file 'b.md' deleted: the one row left
\* is selected
C16_Witness ==
    /\ pc = "picker"
    /\ Len(all_files) = 2 /\ Len(items) = 1 /\ selected = 0
    /\ items[1][1] = FILE_A
    /\ event.did = "menu reload"
    /\ event.called = <<4, FILE_B>>

\* the release of a touch that started in the row area and fired no long press
RowAreaTap ==
    touch_down /\ ~touch_down' /\ ~long_press_fired /\ tap_y >= ITEM_Y0 /\ tap_y < menu_y

\* the files of the rows draw_screen() shows
DisplayedFiles == { items[i + 1][1] : i \in WindowRows(items, selected) }

\* C17: at most 8 rows are shown, from row max(0, selected - 7) on, and a
\* tap in the row area only selects, opens or toggles the favorite of a file
\* that is shown; below the last row shown it changes nothing.
C17_RowTapsStayInWindow ==
    [][RowAreaTap =>
        /\ Cardinality(WindowRows(items, selected)) <= 8
        /\ WindowStart(selected) = (IF selected - 7 > 0 THEN selected - 7 ELSE 0)
        /\ pc' = "viewer" => filename' \in DisplayedFiles
        /\ favorites' # favorites =>
              \E f \in DisplayedFiles :
                 favorites' = (favorites \cup {f}) \ (favorites \cap {f})
        /\ (pc' = "picker" /\ favorites' = favorites) =>
              /\ items' = items
              /\ selected' # selected => items[selected' + 1][1] \in DisplayedFiles]_vars

\* the release of a touch that started on a row draw_screen() shows
DisplayedRowTap ==
    /\ RowAreaTap
    /\ TappedIndex(tap_y, selected) \in WindowRows(items, selected)

\* C18: a tap in the star column (x < 27) of a displayed row toggles that
\* row's favorite flag and the picker goes on; a tap elsewhere on the selected
\* row makes the picker return that row's filename; a tap elsewhere on
\* another row moves the selection to that row and changes nothing else.
C18_RowTapSemantics ==
    [][DisplayedRowTap =>
        LET t == TappedIndex(tap_y, selected)
            f == items[t + 1][1]
        IN  IF tap_x < 27
            THEN /\ favorites' = (favorites \cup {f}) \ (favorites \cap {f})
                 /\ \E i \in 1..Len(items') :
                       items'[i][1] = f /\ items'[i][3] = ~items[t + 1][3]
                 /\ pc' = "picker"
                 /\ UNCHANGED <<filename, sort_col, sort_asc, all_files>>
            ELSE IF t = selected
            THEN pc' = "viewer" /\ filename' = f
            ELSE /\ selected' = t
                 /\ pc' = "picker"
                 /\ UNCHANGED <<items, filename, deviceVars>>]_vars

\* the star of 'b.md' was tapped, and later a tap on the selected row
\* opened that file
C18_Witness ==
    /\ pc = "viewer"
    /\ favorites = {FILE_B}
    /\ filename = FILE_B
    /\ event.did = "open"

\* C19: during one touch of the picker the long press fires at most once,
\* and only at a poll at least 600 ticks after the touch started, less than
\* 10 px from its start, for a touch that started in the row area; the
\* release of a touch whose long press fired sorts nothing, toggles no
\* favorite, moves no selection and returns nothing.
C19_PickerLongPressOncePerTouch ==
    [][/\ (touch_down /\ touch_down' /\ long_press_fired) =>
            (long_press_fired' /\ event'.did = "hold")
       /\ (touch_down /\ touch_down' /\ ~long_press_fired /\ long_press_fired') =>
            /\ event'.held >= 600 /\ event'.moved >= 0 /\ event'.moved < 10
            /\ tap_y >= ITEM_Y0 /\ tap_y < menu_y
       /\ (touch_down /\ touch_down' /\ event'.did = "tag menu") =>
            (~long_press_fired /\ long_press_fired')
       /\ (touch_down /\ ~touch_down' /\ long_press_fired) =>
            /\ UNCHANGED <<items, selected, deviceVars, viewerVars, pc, screen, filename>>
            /\ event'.did = "release ignored"]_vars

\* the tag menu has opened for 'b.md', at a poll 600 ticks after the touch
\* started and 9 px from its start, and the finger is still down
C19_Witness ==
    /\ pc = "picker" /\ touch_down /\ long_press_fired
    /\ event.did = "tag menu"
    /\ event.file = FILE_B
    /\ event.held = 600 /\ event.moved = 9


\* ------------------------------------------ the viewer's touch handling
\* constants.DRAG_THRESHOLD: the value the viewer is run with
DragThresholds == {5}

\* where a touch of the viewer can start: at the top of the page (above
\* y = 82), further down the text, on the menu bar
ViewerTapPoints == { <<100, 40>>, <<100, 100>>, <<100, menu_y + 5>> }

\* how far below its start the finger is found at a later poll
ViewerDrifts == {0, 5, 15}

\* get_menu_tap(tap_x, tap_y, MENU_Y): no slot, or one of the six
ViewerMenuSlots == -1..5

\* what show_context_menu returns in open_more_menu: nothing chosen, Font,
\* Wrap, Split, Go to %, Shortcuts, Doc Info, Forward
MoreChoices == -1..6

\* the keys pressed during the viewer loop: one that scrolls, Escape (as
\* Left), Right, F5 (More) and one with no effect on the state followed here
ViewerKeys == {"scroll", "esc", "right", "f5", "other"}

\* the positions viewer.scroll_to_ratio, scroll_by_fast, search_next and the
\* jumps leave the page at
ScrollTargets == {0, MaxScroll}

\* the longest back history followed in the viewer's touch handling
MaxTouchNav == 1

\* main has opened 'a.md' in the viewer, from the picker
InitViewerTouch ==
    /\ args \in [DRAG_THRESHOLD : DragThresholds]
    /\ ret = <<>>
    /\ all_files = <<FILE_B, FILE_PY, FILE_A>>
    /\ favorites = {} /\ sort_col = "name" /\ sort_asc = TRUE
    /\ scroll_pos = [f \in Documents |-> 0]
    /\ progress = [f \in Documents |-> 0]
    /\ items = <<>> /\ selected = 0
    /\ pc = "viewer" /\ screen = "viewer"
    /\ filename = FILE_A /\ scroll = 0
    /\ nav_stack = <<>> /\ fwd_stack = <<>> /\ action = "back"
    /\ last_file = None /\ last_scroll = 0
    /\ lastNav = NoNav
    /\ HSeparator = 0 /\ saved_separator = <<MaxSeparator>> /\ sepAtInit = MaxSeparator
    /\ evalFailed = {} /\ cleanupCalls = 0
    /\ ScopeIdle

\* what no touch handler of the viewer writes
ViewerTouchRest ==
    UNCHANGED <<args, ret, scopeVars, fileVars, exitVars, guardVars, pickerVars,
                deviceVars, action, pc, screen, last_file, last_scroll>>

\* the pass leaves the document and the navigation stacks alone
ViewerStays == UNCHANGED <<filename, nav_stack, fwd_stack, lastNav, splitVars>>

\* navigate_link, navigate_back and navigate_forward display the file in a
\* new MarkdownViewer(GR_AFF, height=VIEWER_HEIGHT_FULL); split_mode is not
\* touched
NewViewerShown == viewport' = FULL_VIEWPORT /\ UNCHANGED split_mode

\* toggle_split()
ToggleSplit ==
    /\ split_mode' = ~split_mode
    /\ viewport' = IF split_mode' THEN SPLIT_VIEWPORT ELSE FULL_VIEWPORT

\* open_more_menu()
OpenMoreMenu ==
    /\ menu_visible' = FALSE
    /\ \E choice \in MoreChoices :
         IF choice = 2
         THEN /\ ToggleSplit
              /\ UNCHANGED <<scroll, filename, nav_stack, fwd_stack, lastNav>>
         ELSE IF choice = 3
         THEN /\ scroll' \in {scroll} \cup ScrollTargets
              /\ ViewerStays
         ELSE IF choice = 6 /\ fwd_stack # <<>>
         THEN /\ NavigateForward
              /\ lastNav' = NavDone("forward")
              /\ NewViewerShown
         ELSE /\ UNCHANGED scroll
              /\ ViewerStays

\* a key is pressed in the viewer loop: the menu bar is hidden, then the
\* key is dispatched
ViewerKeyPress ==
    /\ pc = "viewer"
    /\ event' = Ev("key", None, TRUE)
    /\ \E key \in ViewerKeys :
         IF key = "esc" /\ nav_stack = <<>>
         THEN /\ menu_visible' = FALSE
              /\ LeaveViewer
              /\ PickerOpen(last_file')
              /\ lastNav' = NoNav
              /\ UNCHANGED <<filename, scroll, nav_stack, fwd_stack, splitVars>>
         ELSE /\ IF key = "esc"
                 THEN /\ menu_visible' = FALSE
                      /\ NavigateBack /\ lastNav' = NavDone("back") /\ NewViewerShown
                 ELSE IF key = "right" /\ fwd_stack # <<>>
                 THEN /\ menu_visible' = FALSE
                      /\ NavigateForward /\ lastNav' = NavDone("forward")
                      /\ NewViewerShown
                 ELSE IF key = "f5"
                 THEN OpenMoreMenu
                 ELSE IF key = "scroll"
                 THEN /\ menu_visible' = FALSE
                      /\ scroll' \in ScrollTargets /\ ViewerStays
                 ELSE /\ menu_visible' = FALSE
                      /\ UNCHANGED scroll /\ ViewerStays
              /\ UNCHANGED <<fileVars, exitVars, pickerVars, scroll_pos, pc, screen,
                             last_file, last_scroll>>
    /\ UNCHANGED <<touch_down, tap_x, tap_y, touch_start_time, long_press_fired,
                   drag_last_y, scrollbar_dragging, fired_touch>>
    /\ UNCHANGED <<args, ret, scopeVars, guardVars, action,
                   all_files, favorites, sort_col, sort_asc>>

\* a poll finds the finger down and no touch in progress
ViewerTouchDown ==
    /\ pc = "viewer" /\ ~touch_down
    /\ touch_down' = TRUE
    /\ \E pt \in ViewerTapPoints, t \in TickStarts :
         /\ tap_x' = pt[1] /\ tap_y' = pt[2]
         /\ drag_last_y' = pt[2]
         /\ touch_start_time' = t
    /\ long_press_fired' = FALSE
    /\ \E is_scrollbar_tap \in BOOLEAN :
         IF ~menu_visible /\ is_scrollbar_tap
         THEN /\ scrollbar_dragging' = TRUE
              /\ scroll' \in ScrollTargets
              /\ event' = Ev("scrollbar", None, TRUE)
         ELSE /\ UNCHANGED <<scrollbar_dragging, scroll>>
              /\ event' = Ev("down", None, FALSE)
    /\ UNCHANGED <<menu_visible, fired_touch>>
    /\ ViewerStays
    /\ ViewerTouchRest

ViewerHoldAtUnderMenu(tx, ty, now, still) ==
    LET moved_lp == (IF tx >= tap_x THEN tx - tap_x ELSE tap_x - tx)
                    + (IF ty >= tap_y THEN ty - tap_y ELSE tap_y - ty)
        delta == drag_last_y - ty
        abs_delta == IF delta >= 0 THEN delta ELSE 0 - delta
    IN  IF scrollbar_dragging
        THEN /\ scroll' \in ScrollTargets
             /\ event' = Ev("scrollbar", None, TRUE)
             /\ UNCHANGED <<touch_down, long_press_fired, drag_last_y, fired_touch>>
        ELSE IF /\ ~long_press_fired
                /\ moved_lp < args.DRAG_THRESHOLD * 3
                /\ tap_y < menu_y
        THEN IF now - touch_start_time >= LONG_PRESS_MS
             THEN \* show_context_menu(...), its choice, redraw()
                  /\ long_press_fired' = TRUE
                  /\ event' = [Ev("context menu", filename, TRUE)
                                   EXCEPT !.held = now - touch_start_time,
                                          !.moved = moved_lp]
                  /\ touch_down' = FALSE
                  /\ drag_last_y' = -1
                  /\ fired_touch' = still
                  /\ UNCHANGED scroll
             ELSE /\ event' = Ev("hold", None, FALSE)
                  /\ UNCHANGED <<touch_down, long_press_fired, drag_last_y,
                                 fired_touch, scroll>>
        ELSE IF /\ ty < menu_y /\ drag_last_y >= 0
                /\ abs_delta >= args.DRAG_THRESHOLD
        THEN /\ scroll' \in ScrollTargets
             /\ drag_last_y' = ty
             /\ event' = Ev("drag", None, TRUE)
             /\ UNCHANGED <<touch_down, long_press_fired, fired_touch>>
        ELSE /\ event' = Ev("hold", None, FALSE)
             /\ UNCHANGED <<touch_down, long_press_fired, drag_last_y,
                            fired_touch, scroll>>

\* a poll finds the finger down at (tx, ty), at tick now, during a touch:
\* the scrollbar drag, the long press with its context menu, the drag scroll.
\* still says that the finger is down when the context menu closes
ViewerHoldAt(tx, ty, now, still) ==
    LET moved_lp == (IF tx >= tap_x THEN tx - tap_x ELSE tap_x - tx)
                    + (IF ty >= tap_y THEN ty - tap_y ELSE tap_y - ty)
        delta == drag_last_y - ty
        abs_delta == IF delta >= 0 THEN delta ELSE 0 - delta
    IN  IF scrollbar_dragging
        THEN /\ scroll' \in ScrollTargets
             /\ event' = Ev("scrollbar", None, TRUE)
             /\ UNCHANGED <<touch_down, long_press_fired, drag_last_y, fired_touch>>
        ELSE IF /\ ~long_press_fired /\ ~menu_visible
                /\ moved_lp < args.DRAG_THRESHOLD * 3
                /\ tap_y < menu_y
        THEN IF now - touch_start_time >= LONG_PRESS_MS
             THEN \* show_context_menu(...), its choice, redraw()
                  /\ long_press_fired' = TRUE
                  /\ event' = [Ev("context menu", filename, TRUE)
                                   EXCEPT !.held = now - touch_start_time,
                                          !.moved = moved_lp]
                  /\ touch_down' = FALSE
                  /\ drag_last_y' = -1
                  /\ fired_touch' = still
                  /\ UNCHANGED scroll
             ELSE /\ event' = Ev("hold", None, FALSE)
                  /\ UNCHANGED <<touch_down, long_press_fired, drag_last_y,
                                 fired_touch, scroll>>
        ELSE IF /\ ~menu_visible /\ ty < menu_y /\ drag_last_y >= 0
                /\ abs_delta >= args.DRAG_THRESHOLD
        THEN /\ scroll' \in ScrollTargets
             /\ drag_last_y' = ty
             /\ event' = Ev("drag", None, TRUE)
             /\ UNCHANGED <<touch_down, long_press_fired, fired_touch>>
        ELSE /\ event' = Ev("hold", None, FALSE)
             /\ UNCHANGED <<touch_down, long_press_fired, drag_last_y,
                            fired_touch, scroll>>

ViewerTouchHold ==
    /\ pc = "viewer" /\ touch_down
    /\ \E d \in ViewerDrifts, e \in Elapsed, still \in BOOLEAN :
         ViewerHoldAt(tap_x, tap_y + d, touch_start_time + e, still)
    /\ UNCHANGED <<tap_x, tap_y, touch_start_time, scrollbar_dragging, menu_visible>>
    /\ ViewerStays
    /\ ViewerTouchRest

ViewerMenuTapKeepingMenu ==
    \E slot \in ViewerMenuSlots :
       IF slot = 4
       THEN OpenMoreMenu /\ event' = Ev("menu slot", None, TRUE)
       ELSE /\ menu_visible' = (slot = -1)
            /\ IF slot \in {0, 1, 2, 3}
               THEN /\ scroll' \in {scroll} \cup ScrollTargets
                    /\ event' = Ev("menu slot", None, TRUE)
               ELSE IF slot = 5
               THEN UNCHANGED scroll /\ event' = Ev("menu slot", None, TRUE)
               ELSE UNCHANGED scroll /\ event' = Ev("menu hidden", None, TRUE)
            /\ ViewerStays

\* the release while the menu bar is shown: the slot's action, or the menu
\* bar is hidden
ViewerMenuTap ==
    \E slot \in ViewerMenuSlots :
       IF slot = 4
       THEN OpenMoreMenu /\ event' = Ev("menu slot", None, TRUE)
       ELSE /\ menu_visible' = FALSE
            /\ IF slot \in {0, 1, 2, 3}
               THEN \* do_search, search_next, open_bookmark_mgr, open_toc
                    /\ scroll' \in {scroll} \cup ScrollTargets
                    /\ event' = Ev("menu slot", None, TRUE)
               ELSE IF slot = 5
               THEN UNCHANGED scroll /\ event' = Ev("menu slot", None, TRUE)
               ELSE UNCHANGED scroll /\ event' = Ev("menu hidden", None, TRUE)
            /\ ViewerStays

\* the viewer on display draws its document at y and below the top of its
\* viewport: only there can a heading or a link be under a tap
InDocumentPane(y) == y >= viewport[1]

ViewerLinkTapClearingForward(url, jump) ==
    IF EndsWith(url, MD_EXT)
    THEN /\ Len(nav_stack) < MaxTouchNav
         /\ nav_stack' = Append(nav_stack, <<filename, scroll>>)
         /\ fwd_stack' = <<>>
         /\ filename' = url
         /\ scroll' \in (IF jump THEN ScrollTargets
                         ELSE {IF ScrollPosOf(url) > 0 THEN ScrollPosOf(url) ELSE 0})
         /\ lastNav' = NavDone("link")
         /\ NewViewerShown
    ELSE /\ scroll' \in (IF jump THEN ScrollTargets ELSE {scroll})
         /\ fwd_stack' = <<>>
         /\ UNCHANGED <<filename, nav_stack, lastNav, splitVars>>

\* navigate_link(url) called for the link under the tap, followed by the
\* TOC jump when jump holds
ViewerLinkTap(url, jump) ==
    IF EndsWith(url, MD_EXT)
    THEN /\ Len(nav_stack) < MaxTouchNav
         /\ nav_stack' = Append(nav_stack, <<filename, scroll>>)
         /\ fwd_stack' = <<>>
         /\ filename' = url
         /\ scroll' \in (IF jump THEN ScrollTargets
                         ELSE {IF ScrollPosOf(url) > 0 THEN ScrollPosOf(url) ELSE 0})
         /\ lastNav' = NavDone("link")
         /\ NewViewerShown
    ELSE /\ scroll' \in (IF jump THEN ScrollTargets ELSE {scroll})
         /\ ViewerStays

\* the release on the page: the heading under the tap is collapsed or
\* expanded, else the link under it is followed; after either, in split
\* view and above y = 82, the tapped row of the TOC pane is jumped to (toc
\* says that the pane has a header on that row)
ViewerPageTap ==
    \E target \in {"heading", "link", "text"}, toc \in BOOLEAN :
       LET jump == split_mode /\ tap_y < 82 /\ toc
           second == IF jump THEN "toc jump" ELSE "nothing"
       IN  /\ target \in {"heading", "link"} => InDocumentPane(tap_y)
           /\ UNCHANGED menu_visible
           /\ IF target = "heading"
              THEN /\ event' = [Ev("collapse", None, TRUE) EXCEPT !.also = second]
                   /\ scroll' \in (IF jump THEN ScrollTargets ELSE {scroll})
                   /\ ViewerStays
              ELSE IF target = "link"
              THEN \E url \in LinkTargets :
                     /\ event' = [Ev("link", url, FALSE) EXCEPT !.also = second]
                     /\ ViewerLinkTap(url, jump)
              ELSE /\ event' = IF jump THEN Ev("toc jump", None, TRUE)
                               ELSE Ev("tap on text", None, FALSE)
                   /\ scroll' \in (IF jump THEN ScrollTargets ELSE {scroll})
                   /\ ViewerStays

\* the release of a touch that did not move far: the tap
ViewerTap ==
    IF menu_visible
    THEN ViewerMenuTap
    ELSE \E target \in {"notch", "pill", "page"} :
           IF target = "notch"
           THEN /\ menu_visible' = TRUE
                /\ event' = Ev("menu shown", None, TRUE)
                /\ UNCHANGED scroll /\ ViewerStays
           ELSE IF target = "pill"
           THEN /\ scroll' \in ScrollTargets
                /\ event' = Ev("search next", None, TRUE)
                /\ UNCHANGED menu_visible /\ ViewerStays
           ELSE ViewerPageTap

\* a poll finds no finger: the release of a touch in progress, if any
ViewerTouchUp ==
    /\ pc = "viewer"
    /\ (touch_down \/ fired_touch \/ drag_last_y # -1)
    /\ drag_last_y' = -1
    /\ fired_touch' = FALSE
    /\ touch_down' = FALSE
    /\ IF touch_down
       THEN /\ scrollbar_dragging' = FALSE
            /\ LET d == tap_y - drag_last_y
                   moved == IF drag_last_y >= 0
                            THEN (IF d >= 0 THEN d ELSE 0 - d) ELSE 0
               IN  IF ~long_press_fired /\ moved < args.DRAG_THRESHOLD * 2
                   THEN ViewerTap
                   ELSE /\ event' = Ev("release ignored", None, FALSE)
                        /\ UNCHANGED <<menu_visible, scroll>> /\ ViewerStays
       ELSE /\ event' = Ev("idle", None, FALSE)
            /\ UNCHANGED <<scrollbar_dragging, menu_visible, scroll>> /\ ViewerStays
    /\ UNCHANGED <<tap_x, tap_y, touch_start_time, long_press_fired>>
    /\ ViewerTouchRest

SpecViewerTouch ==
    InitViewerTouch
    /\ [][ViewerKeyPress \/ ViewerTouchDown \/ ViewerTouchHold \/ ViewerTouchUp]_vars

\* C20: during one touch of the viewer, from the finger going down to the
\* finger going up, the context menu opens at most once, and the release of
\* a touch whose context menu opened follows no link, toggles no heading and
\* runs no menu or notch action, also when the finger was still down as the
\* context menu closed.
C20_ViewerLongPressOncePerTouch ==
    [][/\ (touch_down /\ ~long_press_fired /\ long_press_fired') => ~fired_touch
       /\ (touch_down /\ ~touch_down' /\ fired_touch /\ UNCHANGED long_press_fired) =>
            /\ event'.did = "release ignored"
            /\ UNCHANGED <<filename, scroll, nav_stack, fwd_stack, menu_visible>>]_vars


\* ------------------------------------------ the end of the viewer loop
\* C21: when the viewer loop ends (Escape or Left on an empty back stack,
\* or an interrupt), the file displayed at that moment and its scroll
\* position become last_file and last_scroll, go to the bookmark file (the
\* write being accepted) and to the preference store together with the
\* progress percentage, all before the picker is shown or main returns;
\* the picker then opens with its selection on that file.
C21_ViewerExitRemembersDisplayedFile ==
    [][(pc = "viewer" /\ pc' # "viewer") =>
        /\ nav_stack = <<>> \/ action' = "exit"
        /\ last_file' = filename /\ last_scroll' = scroll
        /\ bookmark_saved' =>
              /\ bookmark_file' = filename \o <<10>> \o StrInt(scroll)
              /\ LoadLastFile(bookmark_file', TRUE) = <<filename, scroll>>
        /\ scroll_pos'[filename] = scroll
        /\ progress'[filename] = ProgressPercent(scroll)
        /\ \A f \in DOMAIN scroll_pos \ {filename} :
              scroll_pos'[f] = scroll_pos[f] /\ progress'[f] = progress[f]
        /\ pc' \in {"picker", "returned"}
        /\ pc' = "picker" <=> action' = "back"
        /\ pc' = "picker" =>
              IF \E i \in 1..Len(items') : items'[i][1] = filename
              THEN items'[selected' + 1][1] = filename
              ELSE selected' = 0]_vars

\* 'b.md' was left at position MaxScroll with Escape: the bookmark file
\* names it, the store holds its position and progress, and the picker
\* shows it selected, on the second row
C21_Witness ==
    /\ pc = "picker" /\ Len(items) = 2 /\ selected = 1
    /\ last_file = FILE_B /\ last_scroll = MaxScroll
    /\ bookmark_saved /\ bookmark_file = BookmarkText(FILE_B, MaxScroll)
    /\ scroll_pos[FILE_B] = MaxScroll /\ progress[FILE_B] = 100

\* the stack without its last entry
Popped(stack) == SubSeq(stack, 1, Len(stack) - 1)

\* C22: in the viewer, Escape and Left pop exactly one entry of the back
\* stack and stay in the viewer when it is non-empty, and leave the viewer
\* loop only when it is empty; Right pops exactly one entry of the forward
\* stack when it is non-empty, changes nothing otherwise, and never leaves
\* the viewer.
C22_EscLeftRightPopOneEntry ==
    [][/\ (ViewerKeyEsc \/ ViewerKeyLeft) =>
            IF nav_stack # <<>>
            THEN /\ pc' = "viewer"
                 /\ nav_stack' = Popped(nav_stack)
                 /\ <<filename', scroll'>> = nav_stack[Len(nav_stack)]
                 /\ Popped(fwd_stack') = fwd_stack
            ELSE pc' = "picker"
       /\ ViewerKeyRight =>
            /\ pc' = "viewer"
            /\ IF fwd_stack # <<>>
               THEN /\ fwd_stack' = Popped(fwd_stack)
                    /\ <<filename', scroll'>> = fwd_stack[Len(fwd_stack)]
                    /\ Popped(nav_stack') = nav_stack
               ELSE UNCHANGED <<filename, scroll, nav_stack, fwd_stack>>]_vars

\* two steps back have left two entries on the forward stack, and Right
\* has taken one of them
C22_Witness ==
    /\ pc = "viewer"
    /\ lastNav.op = "forward" /\ lastNav.prev = "back"
    /\ Len(lastNav.pre[4]) = 2
    /\ Len(fwd_stack) = 1 /\ Len(nav_stack) = 1

\* the release of a touch of the viewer that did not drag
NonDragRelease ==
    /\ touch_down /\ ~touch_down' /\ UNCHANGED long_press_fired
    /\ (IF drag_last_y < 0 THEN 0
        ELSE IF tap_y >= drag_last_y THEN tap_y - drag_last_y ELSE drag_last_y - tap_y)
          < args.DRAG_THRESHOLD * 2

\* C23: the viewer's menu bar becomes visible only by a tap on the notch;
\* it is hidden after every key press and after every non-drag release that
\* finds it visible, on a slot or beside the slots; a menu-slot action is
\* dispatched only by a release that finds the menu bar visible.
C23_MenuBarShownByNotchHiddenByNextInput ==
    [][/\ (~menu_visible /\ menu_visible') =>
            (NonDragRelease /\ event'.did = "menu shown")
       /\ event'.did = "key" => ~menu_visible'
       /\ (menu_visible /\ NonDragRelease) =>
            (~menu_visible' /\ event'.did \in {"menu slot", "menu hidden"})
       /\ event'.did \in {"menu slot", "menu hidden"} =>
            (menu_visible /\ NonDragRelease)]_vars

\* the menu bar was shown, its More slot was tapped and Split chosen: split
\* view is on and the menu bar is hidden
C23_Witness ==
    /\ pc = "viewer" /\ split_mode /\ ~menu_visible
    /\ event.did = "menu slot"

\* C24: a tap on a link whose target does not end in '.md' changes
\* nothing: the file displayed, the viewer and its position, and the back
\* and forward stacks stay as they were.
C24_NonMarkdownLinkChangesNothing ==
    [][(NonDragRelease /\ event'.did = "link" /\ event'.also = "nothing"
        /\ ~EndsWith(event'.file, MD_EXT)) =>
         UNCHANGED <<filename, scroll, viewport, split_mode, nav_stack, fwd_stack,
                     scroll_pos, menu_visible, pc>>]_vars

\* a link to 'c.py' was tapped while the forward stack held an entry
C24_Witness ==
    /\ pc = "viewer" /\ Len(fwd_stack) = 1
    /\ event.did = "link" /\ event.file = FILE_PY /\ event.also = "nothing"

\* C25: while the menu bar is shown, a touch in the viewer scrolls
\* nothing, starts no scrollbar drag and opens no context menu; all it can
\* do is run the action of a menu slot or hide the menu bar.
C25_TouchUnderMenuBarOnlyActsOnMenu ==
    [][(pc = "viewer" /\ menu_visible /\ event'.did # "key") =>
         /\ ~scrollbar_dragging /\ ~scrollbar_dragging'
         /\ ~long_press_fired' /\ ~fired_touch'
         /\ event'.did \in {"down", "hold", "release ignored", "idle",
                            "menu slot", "menu hidden"}
         /\ event'.did # "menu slot" =>
               UNCHANGED <<scroll, filename, nav_stack, fwd_stack, splitVars>>
         /\ event'.did \notin {"menu slot", "menu hidden"} => menu_visible'
         /\ event'.did \in {"menu slot", "menu hidden"} => (touch_down /\ ~touch_down')
         /\ pc' = "viewer"]_vars

\* with the menu bar shown a later poll found the finger still down on the
\* page, and nothing but the poll happened
C25_Witness ==
    /\ touch_down /\ menu_visible /\ pc = "viewer"
    /\ event.did = "hold" /\ tap_y < menu_y /\ ~long_press_fired

\* C26: in file_picker, after any sequence of keys, taps, long presses
\* and menu callbacks, selected is an index of items when the list is not
\* empty and 0 when it is; Up and Down move it by one row and never past
\* the first or the last row, so Up on row 0 and Down on the last row
\* leave it where it is.
C26_PickerSelectionStaysInRange ==
    /\ [](pc = "picker" =>
            IF items = <<>> THEN selected = 0
            ELSE 0 <= selected /\ selected < Len(items))
    /\ [][(pc = "picker" /\ selected' # selected
           /\ UNCHANGED <<pc, items, event, touchVars>>) =>
            \/ selected > 0 /\ selected' = selected - 1
            \/ selected < Len(items) - 1 /\ selected' = selected + 1]_vars

\* a star was tapped, the selection was moved, and a menu callback then
\* answered 'reload' over a device holding no document: the list is empty
\* and the selection is 0
C26_Witness ==
    /\ pc = "picker" /\ favorites # {}
    /\ event.did = "menu reload" /\ items = <<>> /\ selected = 0

\* C27: a tap on a column header and a tap on a star rebuild the list and
\* leave the selection on the file it was on, whatever row that file has
\* moved to; over an empty list the selection stays 0.
C27_HeaderAndStarTapKeepSelectedFile ==
    [][(pc = "picker" /\ touch_down /\ ~touch_down'
        /\ event'.did \in {"sort", "star"}) =>
         /\ Len(items') = Len(items)
         /\ IF items = <<>> THEN selected' = 0
            ELSE /\ selected' \in 0..(Len(items') - 1)
                 /\ items'[selected' + 1][1] = items[selected + 1][1]]_vars

\* with 'b.md' starred the size header was tapped and the list is in
\* descending order: the selection is on the last of several rows
C27_Witness ==
    /\ favorites # {} /\ pc = "picker"
    /\ event.did = "sort" /\ sort_col = "size" /\ ~sort_asc
    /\ Len(items) >= 2 /\ selected = Len(items) - 1

\* C28 as stated: in every sequence of init() and cleanup() calls that
\* starts with init(), init() called more than once included, each
\* cleanup() that could be the last leaves HSeparator at the value it had
\* before the first init() (the evaluator accepting every call).
C28_LastCleanupRestoresFirstValue ==
    [][(pc # "unguarded" /\ cleanupCalls' = cleanupCalls + 1 /\ evalFailed' = {}) =>
         HSeparator' = args.separator]_vars

\* C29 as stated: in the viewer loop split_mode is true exactly when the
\* viewer instance on display has the split viewport
\* (85, VIEWER_HEIGHT_FULL - 80), also after a link, a back step or a
\* forward step taken while split view is on.
C29_SplitModeMatchesViewport ==
    pc = "viewer" => (split_mode <=> viewport = SPLIT_VIEWPORT)

\* C30 as stated: one tap release in the viewer does at most one of these:
\* a menu-slot action, hiding the menu bar, showing the menu bar,
\* search-next, the collapse toggle of a heading, the navigation of a link,
\* a jump from the TOC pane of split view.
C30_TapReleaseDoesAtMostOneThing ==
    [][(/\ NonDragRelease
        /\ \/ event'.did \in {"menu slot", "menu hidden", "menu shown",
                               "search next", "collapse", "toc jump"}
           \/ event'.did = "link" /\ EndsWith(event'.file, MD_EXT)) =>
         event'.also = "nothing"]_vars

====
